---- MODULE Spec2Model ----
(***************************************************************************)
(* A model of `git test` (git-branchless-test/src/lib.rs): the per-commit  *)
(* test runner with its tree-keyed result cache, the pid.lock protocol on  *)
(* cache slots, the working-directory locks, the worker pool and the       *)
(* scheduler's event loop with the search driver.                          *)
(*                                                                         *)
(* Threads are modelled at the granularity of the operations that other    *)
(* threads or processes can observe: taking a lock, reading and creating   *)
(* the slot's files, preparing the working directory, spawning the         *)
(* command, the command's exit, sending a result, receiving a result.      *)
(***************************************************************************)
EXTENDS Integers, Sequences, FiniteSets, TLC

(***************************************************************************)
(* Bounds of the model.                                                    *)
(***************************************************************************)
\* Number of candidate commits of a run without a search strategy.
MaxCommits == 2
\* Largest number of worker threads (`jobs`).
MaxJobs == 2
\* Number of candidate commits of the repeated runs.
RerunCommits == 2
\* Number of candidate commits of a run beside a cleaning process.
HostCommits == 2
\* Length of the linear chain of candidates of a run with a search strategy.
ChainLen == 5
\* Number of candidate commits of a run with a search strategy and several
\* workers.
SearchCommits == 2
\* Largest number of candidate commits of a run under any options.
SmallCommits == 1
\* Largest number of physical CPUs of the machine resolving the options.
MaxCpus == 2
\* Largest exit code drawn for the pure exit-code and cache-record checks.
MaxExitCode == 130

(***************************************************************************)
(* Program constants.                                                      *)
(***************************************************************************)
INDETERMINATE_EXIT_CODE == 125
ABORT_EXIT_CODE == 127

(***************************************************************************)
(* Small helpers.                                                          *)
(***************************************************************************)
Range(s) == {s[i] : i \in 1..Len(s)}

(***************************************************************************)
(* TestStatus (lib.rs, enum TestStatus).  One record shape for all the     *)
(* variants; a field a variant does not carry holds its default (cached    *)
(* FALSE, exit_code -1, fixed_tree_oid 0 = None, interactive FALSE).       *)
(***************************************************************************)
TestStatus(tag, cached, exit_code, fixed_tree_oid, interactive) ==
    [tag |-> tag, cached |-> cached, exit_code |-> exit_code,
     fixed_tree_oid |-> fixed_tree_oid, interactive |-> interactive]

CheckoutFailed     == TestStatus("CheckoutFailed", FALSE, -1, 0, FALSE)
SpawnTestFailed    == TestStatus("SpawnTestFailed", FALSE, -1, 0, FALSE)
TerminatedBySignal == TestStatus("TerminatedBySignal", FALSE, -1, 0, FALSE)
AlreadyInProgress  == TestStatus("AlreadyInProgress", FALSE, -1, 0, FALSE)
ReadCacheFailed    == TestStatus("ReadCacheFailed", FALSE, -1, 0, FALSE)
Indeterminate(exit_code) == TestStatus("Indeterminate", FALSE, exit_code, 0, FALSE)
Abort(exit_code)   == TestStatus("Abort", FALSE, exit_code, 0, FALSE)
Failed(cached, exit_code, interactive) ==
    TestStatus("Failed", cached, exit_code, 0, interactive)
Passed(cached, fixed_tree_oid, interactive) ==
    TestStatus("Passed", cached, -1, fixed_tree_oid, interactive)
\* The status of a worker that has produced no output yet.
NoStatus == TestStatus("NoStatus", FALSE, -1, 0, FALSE)

(***************************************************************************)
(* Object ids and their text form (NonZeroOid::to_string and parse, used   *)
(* by SerializedNonZeroOid).  An oid is a natural number, 0 the zero oid;  *)
(* its text is two hexadecimal digits.                                     *)
(***************************************************************************)
\* A text that keeps the last digit only.
OidToString_low(oid) == <<0, oid % 16>>

OidToString(oid) == <<oid \div 16, oid % 16>>

\* The parsed oid, or 0 when the text is not a valid non-zero oid.
ParseNonZeroOid(s) ==
    IF Len(s) = 2 /\ s[1] \in 0..15 /\ s[2] \in 0..15
    THEN 16 * s[1] + s[2]
    ELSE 0

(***************************************************************************)
(* test_commit: the tree the command left behind and the status of a       *)
(* command that returned a numeric exit code.                              *)
(***************************************************************************)
WorkingCopyChangesType == {"None", "Unstaged", "Staged", "Conflicts"}

\* A fixed tree taken whatever the changes are.
FixedTreeOid_any_changes(snapshot, commit_tree_oid) ==
    IF commit_tree_oid # snapshot.tree_oid THEN snapshot.tree_oid ELSE 0

\* lib.rs 2546-2565: the fixed tree (0 = None) for a snapshot of the working
\* copy taken after the command exited with code 0.
FixedTreeOid(snapshot, commit_tree_oid) ==
    IF snapshot.changes_type \in {"None", "Unstaged"}
    THEN IF commit_tree_oid # snapshot.tree_oid THEN snapshot.tree_oid ELSE 0
    ELSE 0

\* A fresh result that claims to come from the cache.
TestCommitStatus_cached(exit_code, snapshot, commit_tree_oid, interactive) ==
    IF exit_code = 0
        THEN Passed(TRUE, FixedTreeOid(snapshot, commit_tree_oid), interactive)
    ELSE IF exit_code = INDETERMINATE_EXIT_CODE THEN Indeterminate(exit_code)
    ELSE IF exit_code = ABORT_EXIT_CODE THEN Abort(exit_code)
    ELSE Failed(TRUE, exit_code, interactive)

\* lib.rs 2523-2582.
TestCommitStatus(exit_code, snapshot, commit_tree_oid, interactive) ==
    IF exit_code = 0
        THEN Passed(FALSE, FixedTreeOid(snapshot, commit_tree_oid), interactive)
    ELSE IF exit_code = INDETERMINATE_EXIT_CODE THEN Indeterminate(exit_code)
    ELSE IF exit_code = ABORT_EXIT_CODE THEN Abort(exit_code)
    ELSE Failed(FALSE, exit_code, interactive)

(***************************************************************************)
(* The persisted record (struct SerializedTestResult) and its JSON text.   *)
(* The text is a record of the four members as written: the oid as its     *)
(* text form or <<>> for null; `wellformed` is FALSE for a file that is    *)
(* not JSON at all (a torn or foreign write).                              *)
(***************************************************************************)
\* lib.rs 2584-2603: the record test_commit builds from the status.
SerializedTestResult(command, exit_code, test_status, interactive) ==
    [command |-> command,
     exit_code |-> exit_code,
     fixed_tree_oid |-> IF test_status.tag = "Passed"
                        THEN test_status.fixed_tree_oid ELSE 0,
     interactive |-> interactive]

\* A writer that stops in the middle of the text.
ToJson_torn(r) ==
    [wellformed |-> FALSE,
     command |-> r.command,
     exit_code |-> r.exit_code,
     fixed_tree_oid |-> <<>>,
     interactive |-> r.interactive]

\* serde_json::to_writer_pretty of a SerializedTestResult.
ToJson(r) ==
    [wellformed |-> TRUE,
     command |-> r.command,
     exit_code |-> r.exit_code,
     fixed_tree_oid |-> IF r.fixed_tree_oid = 0 THEN <<>>
                        ELSE OidToString(r.fixed_tree_oid),
     interactive |-> r.interactive]

GarbageJson ==
    [wellformed |-> FALSE, command |-> <<>>, exit_code |-> 0,
     fixed_tree_oid |-> <<>>, interactive |-> FALSE]

\* A parser that accepts no text.
FromJson_rejects(j) ==
    [ok |-> FALSE,
     value |-> [command |-> j.command, exit_code |-> j.exit_code,
                fixed_tree_oid |-> 0, interactive |-> j.interactive]]

\* serde_json::from_str::<SerializedTestResult>: ok is FALSE on a parse error
\* (malformed text, an oid text that is not a valid non-zero oid).
FromJson(j) ==
    LET bad == \/ ~j.wellformed
               \/ /\ j.fixed_tree_oid # <<>>
                  /\ ParseNonZeroOid(j.fixed_tree_oid) = 0
    IN  [ok |-> ~bad,
         value |-> [command |-> j.command,
                    exit_code |-> j.exit_code,
                    fixed_tree_oid |-> IF j.fixed_tree_oid = <<>> THEN 0
                                       ELSE ParseNonZeroOid(j.fixed_tree_oid),
                    interactive |-> j.interactive]]

\* A reader without the arms for the special exit codes.
CachedStatus_no_special(contents) ==
    LET serialized_result == FromJson(contents)
        r == serialized_result.value
    IN  IF ~serialized_result.ok THEN ReadCacheFailed
        ELSE IF r.exit_code = 0 THEN Passed(TRUE, r.fixed_tree_oid, r.interactive)
        ELSE Failed(TRUE, r.exit_code, r.interactive)

\* lib.rs 2219-2260: the status make_test_files derives from the non-empty
\* contents of a result file.
CachedStatus(contents) ==
    LET serialized_result == FromJson(contents)
        r == serialized_result.value
    IN  IF ~serialized_result.ok THEN ReadCacheFailed
        ELSE IF r.exit_code = 0 THEN Passed(TRUE, r.fixed_tree_oid, r.interactive)
        ELSE IF r.exit_code = INDETERMINATE_EXIT_CODE THEN Indeterminate(r.exit_code)
        ELSE IF r.exit_code = ABORT_EXIT_CODE THEN Abort(r.exit_code)
        ELSE Failed(TRUE, r.exit_code, r.interactive)

(***************************************************************************)
(* Commands and cache slots.  A command is a sequence of characters.       *)
(***************************************************************************)
RECURSIVE ReplaceUnsafe(_)
ReplaceUnsafe(command) ==
    IF command = <<>> THEN <<>>
    ELSE (IF Head(command) \in {"/", " ", "\n"} THEN <<"_", "_">>
          ELSE <<Head(command)>>) \o ReplaceUnsafe(Tail(command))

\* lib.rs 463-465.
make_command_slug(command) == ReplaceUnsafe(command)

\* The command of the runs of the model.
TestCommand == <<"m", "k">>

(***************************************************************************)
(* ResolvedTestOptions::resolve.  An Option is <<>> (None) or <<x>>        *)
(* (Some(x)).  `raw` is RawTestOptions; `config` holds the values of       *)
(* branchless.test.strategy (a text), branchless.test.jobs (an i32) and    *)
(* whether the alias asked for is defined; `env` whether SHELL is set and  *)
(* the number of physical CPUs.                                            *)
(***************************************************************************)
ResolveError == [ok |-> FALSE, exit_code |-> 1]

\* lib.rs 255-278 with resolve_test_command_alias (lib.rs 164-217): is a
\* command found.
ResolveCommand(raw, config, env) ==
    IF raw.exec THEN TRUE
    ELSE IF ~raw.command_alias /\ raw.interactive /\ env.shell THEN TRUE
    ELSE config.alias_defined

\* lib.rs 279-305: the strategy of the command line, else of the
\* configuration, else WorkingCopy; <<>> for a configured text that is no
\* strategy.
ConfiguredExecutionStrategy(raw, config) ==
    IF raw.strategy # <<>> THEN raw.strategy
    ELSE IF config.strategy = <<>> THEN <<"WorkingCopy">>
    ELSE IF config.strategy[1] = "working-copy" THEN <<"WorkingCopy">>
    ELSE IF config.strategy[1] = "worktree" THEN <<"Worktree">>
    ELSE <<>>

\* Jobs resolved without a look at interactive.
ResolveJobs_any_jobs(raw, configured_jobs, configured_execution_strategy) ==
    IF raw.jobs = <<>> THEN
        [ok |-> TRUE,
         jobs |-> IF configured_jobs = <<>> THEN 1 ELSE configured_jobs[1],
         execution_strategy |-> configured_execution_strategy,
         interactive |-> raw.interactive]
    ELSE IF raw.jobs[1] = 1 THEN
        [ok |-> TRUE, jobs |-> 1, execution_strategy |-> configured_execution_strategy,
         interactive |-> raw.interactive]
    ELSE IF raw.strategy = <<"WorkingCopy">> THEN
        [ok |-> FALSE, jobs |-> 0, execution_strategy |-> "", interactive |-> FALSE]
    ELSE [ok |-> TRUE, jobs |-> raw.jobs[1], execution_strategy |-> "Worktree",
          interactive |-> raw.interactive]

\* lib.rs 323-364: (resolved_jobs, resolved_execution_strategy,
\* resolved_interactive), or the error of --jobs with --interactive or with
\* --strategy working-copy.
ResolveJobs(raw, configured_jobs, configured_execution_strategy) ==
    LET default_jobs == IF configured_jobs = <<>> THEN 1 ELSE configured_jobs[1]
        resolved(jobs, execution_strategy, interactive) ==
            [ok |-> TRUE, jobs |-> jobs, execution_strategy |-> execution_strategy,
             interactive |-> interactive]
        failed == [ok |-> FALSE, jobs |-> 0, execution_strategy |-> "",
                   interactive |-> FALSE]
    IN  IF raw.jobs = <<>> THEN
            IF raw.strategy = <<"WorkingCopy">>
            THEN resolved(1, "WorkingCopy", raw.interactive)
            ELSE IF raw.strategy = <<"Worktree">>
            THEN IF raw.interactive THEN resolved(1, "Worktree", TRUE)
                 ELSE resolved(default_jobs, "Worktree", FALSE)
            ELSE IF raw.interactive
            THEN resolved(1, configured_execution_strategy, TRUE)
            ELSE resolved(default_jobs, configured_execution_strategy, FALSE)
        ELSE IF raw.jobs[1] = 1
        THEN resolved(1, configured_execution_strategy, raw.interactive)
        ELSE IF raw.interactive THEN failed
        ELSE IF raw.strategy = <<"WorkingCopy">> THEN failed
        ELSE resolved(raw.jobs[1], "Worktree", FALSE)

\* lib.rs 232-461.
Resolve(raw, config, env) ==
    LET configured_execution_strategy == ConfiguredExecutionStrategy(raw, config)
        configured_jobs == config.jobs
    IN  IF ~ResolveCommand(raw, config, env) THEN ResolveError
        ELSE IF configured_execution_strategy = <<>> THEN ResolveError
        ELSE IF configured_jobs # <<>> /\ configured_jobs[1] < 0 THEN ResolveError
        ELSE LET r == ResolveJobs(raw, configured_jobs,
                                  configured_execution_strategy[1])
             IN  IF ~r.ok THEN ResolveError
                 ELSE IF r.interactive # raw.interactive THEN ResolveError
                 ELSE IF raw.apply_fixes /\ ~raw.fix_options_ok THEN ResolveError
                 ELSE [ok |-> TRUE,
                       exit_code |-> 0,
                       execution_strategy |-> r.execution_strategy,
                       search_strategy |-> IF raw.bisect THEN "Binary" ELSE raw.search,
                       interactive |-> r.interactive,
                       jobs |-> IF r.jobs = 0 THEN env.num_cpus ELSE r.jobs,
                       dry_run |-> raw.dry_run,
                       apply_fixes |-> raw.apply_fixes]

(***************************************************************************)
(* State.                                                                  *)
(***************************************************************************)
VARIABLES
    commits,        \* run_tests `commits`: the sorted candidate list
    parent_of,      \* the repository DAG: the parent of each commit (0: outside)
    tree_of,        \* Commit::get_tree_oid
    options,        \* ResolvedTestOptions
    oracle,         \* what the user's command does on a commit
    cache,          \* <repo>/test/<tree>/<slug>/{result,stdout,stderr,pid.lock}
    workers,        \* the worker threads: position, job, held locks
    work_queue,     \* WorkQueue<TestJob>
    result_rx,      \* the channel of JobResults, oldest first
    search,         \* search::Search: the observations notified so far
    test_outputs,   \* event_loop `test_outputs`
    testing_aborted_error,  \* event_loop `testing_aborted_error` (<<>>: None)
    sched,          \* the scheduler thread: position, run number, results
    probe           \* the inputs and results of the pure checks

inputVars == <<commits, parent_of, tree_of, options, oracle>>
loopVars  == <<search, test_outputs, testing_aborted_error>>
vars == <<commits, parent_of, tree_of, options, oracle, cache, workers,
          work_queue, result_rx, search, test_outputs, testing_aborted_error,
          sched, probe>>

(***************************************************************************)
(* Files of a cache slot.  A file is absent or has contents; the contents  *)
(* of `result` are <<>> (empty) or one JSON text, those of stdout/stderr   *)
(* are <<>> or the commit whose test wrote them.                           *)
(***************************************************************************)
AbsentFile == [exists |-> FALSE, contents |-> <<>>]
EmptyFile  == [exists |-> TRUE, contents |-> <<>>]
FileWith(x) == [exists |-> TRUE, contents |-> <<x>>]

\* A slot directory that does not exist.
AbsentSlot ==
    [exists |-> FALSE, result |-> AbsentFile, stdout |-> AbsentFile,
     stderr |-> AbsentFile]
\* A slot a writer left behind without a verdict: the sentinel for "the
\* previous writer did not finish".
CrashedSlot ==
    [exists |-> TRUE, result |-> EmptyFile, stdout |-> EmptyFile,
     stderr |-> EmptyFile]

Trees == {tree_of[c] : c \in DOMAIN tree_of}
Slots == Trees \X {make_command_slug(TestCommand)}

\* lib.rs 2183-2196: the slot directory of a commit under the run's command.
SlotOf(commit_oid) == <<tree_of[commit_oid], make_command_slug(options.command)>>

(***************************************************************************)
(* Locks (fslock::LockFile, try_lock_with_pid).  A lock is held per open   *)
(* handle: a second handle on the same file fails to lock it, in the same  *)
(* process too (tests::test_lock_prepared_working_directory).  A holder    *)
(* whose slot directory was removed under it still holds the lock of the   *)
(* unlinked file (`detached`), which excludes nobody.                      *)
(***************************************************************************)
Workers == DOMAIN workers

\* A lock kept until the result of the job has been sent.
HoldsSlotLock_until_sent(w) ==
    workers[w].pc \in {"locked", "acquired", "prepared", "running", "done"}

HoldsSlotLock(w) == workers[w].pc \in {"locked", "acquired", "prepared", "running"}
HoldsTestFiles(w) == workers[w].pc \in {"acquired", "prepared", "running"}
HoldsWorkingDirectory(w) == workers[w].pc \in {"prepared", "running"}

\* The workers whose lock on the slot's current pid.lock is in force.
SlotHolders(slot) ==
    {w \in Workers : /\ HoldsSlotLock(w)
                     /\ SlotOf(workers[w].job) = slot
                     /\ ~workers[w].lock_detached}

\* One lock file for every worktree.
WorkingDirectoryLock_one_worktree(strategy, worker_id) ==
    IF strategy = "WorkingCopy" THEN <<"working-copy.lock", 0>>
    ELSE <<"worktree.lock", 0>>

\* lib.rs 2314-2319: the lock file of the working directory of a worker.
WorkingDirectoryLock(strategy, worker_id) ==
    IF strategy = "WorkingCopy" THEN <<"working-copy.lock", 0>>
    ELSE <<"worktree.lock", worker_id>>

WorkingDirectoryHolders(lock) ==
    {w \in Workers : /\ HoldsWorkingDirectory(w)
                     /\ WorkingDirectoryLock(options.execution_strategy, w) = lock}

\* A worker between jobs.  `failed` marks a JobResult::Error.  `lock_detached`
\* and `files_detached`: the held pid.lock, or the open result/stdout/stderr
\* handles, belong to files that were removed.  `recovering`, `prepare_error`,
\* `prepared` and `spawned` record what run_test did for the job at hand:
\* whether the slot's result file existed but was empty, the error of
\* prepare_working_directory, whether it was called, and whether the command
\* process was started.
IdleWorker ==
    [pc |-> "idle", job |-> 0, test_status |-> NoStatus, failed |-> FALSE,
     lock_detached |-> FALSE, files_detached |-> FALSE, recovering |-> FALSE,
     prepare_error |-> "", prepared |-> FALSE, spawned |-> FALSE]

\* run_test returns for worker w with the given status: every lock and file
\* handle of the job is dropped.
Finished(w, test_status) ==
    [workers[w] EXCEPT !.pc = "done", !.test_status = test_status,
                       !.lock_detached = FALSE, !.files_detached = FALSE]

(***************************************************************************)
(* The repository DAG and the SearchGraph over the candidate set.          *)
(***************************************************************************)
CommitSet == Range(commits)

RECURSIVE DagAncestors(_)
\* Dag::query().ancestors: the commit and everything it descends from.
DagAncestors(node) ==
    IF node \notin DOMAIN parent_of THEN {}
    ELSE {node} \cup DagAncestors(parent_of[node])

DagDescendants(node) == {d \in DOMAIN parent_of : node \in DagAncestors(d)}

\* A graph in which a commit has no ancestors but itself.
ancestors_self(node) == {node} \cap CommitSet

\* lib.rs 1204-1209.
ancestors(node) == DagAncestors(node) \cap CommitSet
\* lib.rs 1212-1217.
descendants(node) == DagDescendants(node) \cap CommitSet

(***************************************************************************)
(* The search driver (scm_bisect::search).  It keeps the observations it   *)
(* was notified of; a Success implies Success for the ancestors, a Failure *)
(* implies Failure for the descendants, an Indeterminate prunes nothing    *)
(* but is not probed again.                                                *)
(***************************************************************************)
NewSearch == [success |-> {}, failure |-> {}, indeterminate |-> {}]

notify(s, node, status) ==
    IF status = "Success" THEN [s EXCEPT !.success = @ \cup {node}]
    ELSE IF status = "Failure" THEN [s EXCEPT !.failure = @ \cup {node}]
    ELSE [s EXCEPT !.indeterminate = @ \cup {node}]

ImpliedSuccess(s) == UNION {ancestors(x) : x \in s.success}
ImpliedFailure(s) == UNION {descendants(x) : x \in s.failure}

\* search::Bounds: the maximal passing and the minimal failing frontier.
Bounds(s) ==
    [success |-> {x \in s.success :
                    \A y \in s.success : x \in ancestors(y) => y = x},
     failure |-> {x \in s.failure :
                    \A y \in s.failure : x \in descendants(y) => y = x}]

\* The commits whose verdict is neither observed nor implied.
Ambiguous(s) ==
    CommitSet \ (ImpliedSuccess(s) \cup ImpliedFailure(s) \cup s.indeterminate)

\* The position of a commit in the sorted candidate list.
IndexOf(commit_oid) == CHOOSE i \in 1..Len(commits) : commits[i] = commit_oid

Abs(n) == IF n < 0 THEN -n ELSE n

\* The next commit the strategy wants probed in state s (0: none).
Midpoint(strategy, s) ==
    LET amb == Ambiguous(s)
        below(x) == Cardinality(ancestors(x) \cap amb)
        above(x) == Cardinality(descendants(x) \cap amb)
        imbalance(x) == Abs(below(x) - above(x))
        better(x, y) ==
            \/ imbalance(x) < imbalance(y)
            \/ imbalance(x) = imbalance(y) /\ below(x) > below(y)
            \/ imbalance(x) = imbalance(y) /\ below(x) = below(y) /\ x <= y
    IN  IF amb = {} THEN 0
        ELSE IF strategy = "Linear"
            THEN CHOOSE x \in amb : \A y \in amb : IndexOf(x) <= IndexOf(y)
        ELSE IF strategy = "LinearReverse"
            THEN CHOOSE x \in amb : \A y \in amb : IndexOf(x) >= IndexOf(y)
        ELSE CHOOSE x \in amb : \A y \in amb : better(x, y)

RECURSIVE Speculate(_, _, _, _)
\* The lazy iterator of a solution: the midpoint of the current state, then
\* the midpoints of the states in which it failed or succeeded, and so on,
\* each commit once; n is the number of commits the caller takes.
Speculate(strategy, states, seen, n) ==
    IF n = 0 \/ states = <<>> THEN <<>>
    ELSE LET s == Head(states)
             m == Midpoint(strategy, s)
         IN  IF m = 0 THEN Speculate(strategy, Tail(states), seen, n)
             ELSE LET rest == Tail(states) \o
                              <<notify(s, m, "Failure"), notify(s, m, "Success")>>
                  IN  IF m \in seen
                      THEN Speculate(strategy, rest, seen, n)
                      ELSE <<m>> \o Speculate(strategy, rest, seen \cup {m}, n - 1)

\* search.search(strategy).next_to_search.take(n)
next_to_search(strategy, s, n) == Speculate(strategy, <<s>>, {}, n)

(***************************************************************************)
(* What the user's command does.  `kind` "any": every outcome on every     *)
(* commit; "chain": exit code 0 on the commits up to `pass_up_to` of the   *)
(* candidate list and 1 on the later ones.  `faults` allows the failures   *)
(* of the environment (checkout, spawn, signal).                           *)
(***************************************************************************)
RunExitCodes == {0, 1, INDETERMINATE_EXIT_CODE, ABORT_EXIT_CODE}

ExitCodesOn(commit_oid) ==
    IF oracle.kind = "any" THEN RunExitCodes
    ELSE IF IndexOf(commit_oid) <= oracle.pass_up_to THEN {0} ELSE {1}

\* The snapshots of the working copy the command can leave on exit code 0:
\* untouched, or (when the command fixes files) unstaged changes giving
\* another tree.
SnapshotsOn(commit_oid) ==
    {[changes_type |-> "None", tree_oid |-> tree_of[commit_oid]]}
    \cup (IF oracle.fixes
          THEN {[changes_type |-> "Unstaged", tree_oid |-> tree_of[commit_oid] + 16]}
          ELSE {})

(***************************************************************************)
(* The work queue and the worker loop (worker.rs).                         *)
(***************************************************************************)
\* WorkQueue::set: replace the pending jobs.
WorkQueueSet(q, jobs) == [q EXCEPT !.jobs = jobs]
\* WorkQueue::close.
WorkQueueClose(q) == [q EXCEPT !.closed = TRUE]

\* A worker takes the next pending job.
pull(w) ==
    /\ workers[w].pc = "idle"
    /\ work_queue.jobs # <<>>
    /\ work_queue' = [work_queue EXCEPT !.jobs = Tail(@)]
    /\ workers' = [workers EXCEPT ![w] =
                     [IdleWorker EXCEPT !.pc = "pulled", !.job = Head(work_queue.jobs)]]
    /\ UNCHANGED <<inputVars, loopVars, cache, result_rx, sched, probe>>

\* pull() returns "no more work": the queue is closed and drained.
worker_exit(w) ==
    /\ workers[w].pc = "idle"
    /\ work_queue.jobs = <<>>
    /\ work_queue.closed
    /\ workers' = [workers EXCEPT ![w].pc = "exited"]
    /\ UNCHANGED <<inputVars, loopVars, cache, work_queue, result_rx, sched, probe>>

\* The worker posts the result of run_test; a result sent after the scheduler
\* has left the event loop is lost with the channel.
send(w) ==
    /\ workers[w].pc = "done"
    /\ result_rx' =
         IF sched.pc \in {"recv", "notified"}
         THEN Append(result_rx,
                     [kind |-> IF workers[w].failed THEN "Error" ELSE "Done",
                      job |-> workers[w].job,
                      test_status |-> workers[w].test_status,
                      prepared |-> workers[w].prepared,
                      spawned |-> workers[w].spawned])
         ELSE result_rx
    /\ workers' = [workers EXCEPT ![w] = IdleWorker]
    /\ UNCHANGED <<inputVars, loopVars, cache, work_queue, sched, probe>>

(***************************************************************************)
(* run_test: make_test_files, prepare_working_directory, test_commit.      *)
(***************************************************************************)
\* A lock that every handle can take.
TryLockSlot_always(w, slot) == TRUE

\* try_lock_with_pid on the slot's pid.lock: does the lock succeed for w.
TryLockSlot(w, slot) == SlotHolders(slot) \ {w} = {}

\* lib.rs 2183-2210: create the slot directory, open pid.lock and try to lock
\* it; a held lock gives AlreadyInProgress and leaves the files alone.
make_test_files_lock(w) ==
    /\ workers[w].pc = "pulled"
    /\ LET slot == SlotOf(workers[w].job)
       IN  /\ cache' = [cache EXCEPT ![slot].exists = TRUE]
           /\ IF TryLockSlot(w, slot)
              THEN workers' = [workers EXCEPT ![w].pc = "locked"]
              ELSE workers' = [workers EXCEPT ![w] = Finished(w, AlreadyInProgress)]
    /\ UNCHANGED <<inputVars, loopVars, work_queue, result_rx, sched, probe>>

\* A read that takes every existing result file, empty or not, for a record.
make_test_files_read_any_contents(w) ==
    /\ workers[w].pc = "locked"
    /\ LET slot == SlotOf(workers[w].job)
           result == cache[slot].result
       IN  IF ~cache[slot].exists
           THEN /\ workers' = [workers EXCEPT ![w] =
                                 [Finished(w, NoStatus) EXCEPT !.failed = TRUE]]
                /\ cache' = cache
           ELSE IF result.exists
           THEN /\ workers' = [workers EXCEPT ![w] =
                                 Finished(w, IF result.contents = <<>>
                                             THEN ReadCacheFailed
                                             ELSE CachedStatus(result.contents[1]))]
                /\ cache' = cache
           ELSE /\ workers' = [workers EXCEPT ![w].pc = "acquired",
                                              ![w].recovering = result.exists]
                /\ cache' = [cache EXCEPT ![slot] = CrashedSlot]
    /\ UNCHANGED <<inputVars, loopVars, work_queue, result_rx, sched, probe>>

\* lib.rs 2212-2285: with the lock held, read `result`; a non-empty file is
\* the cached verdict (and the lock is dropped on return), otherwise the three
\* files are created or truncated.  When the directory was removed meanwhile
\* File::create fails and run_test returns the error.
make_test_files_read(w) ==
    /\ workers[w].pc = "locked"
    /\ LET slot == SlotOf(workers[w].job)
           result == cache[slot].result
       IN  IF ~cache[slot].exists
           THEN /\ workers' = [workers EXCEPT ![w] =
                                 [Finished(w, NoStatus) EXCEPT !.failed = TRUE]]
                /\ cache' = cache
           ELSE IF result.exists /\ result.contents # <<>>
           THEN /\ workers' = [workers EXCEPT ![w] =
                                 Finished(w, CachedStatus(result.contents[1]))]
                /\ cache' = cache
           ELSE /\ workers' = [workers EXCEPT ![w].pc = "acquired",
                                              ![w].recovering = result.exists]
                /\ cache' = [cache EXCEPT ![slot] = CrashedSlot]
    /\ UNCHANGED <<inputVars, loopVars, work_queue, result_rx, sched, probe>>

\* lib.rs 2320-2419: the results of prepare_working_directory.  With the lock
\* file held elsewhere it returns LockFailed before anything else is done;
\* otherwise it succeeds or, when the environment fails, returns the errors of
\* its strategy.
PrepareWorkingDirectoryResults(locked, strategy, faults) ==
    IF locked THEN {"LockFailed"}
    ELSE {"Ok"} \cup
         (IF ~faults THEN {}
          ELSE IF strategy = "WorkingCopy"
              THEN {"NoWorkingCopy", "CheckoutFailed"}
          ELSE {"CreateWorktreeFailed", "CheckoutFailed"})

\* lib.rs 2337-2345, 2391-2405: the results with which `git reset --hard` or
\* `git checkout --force` of the commit has been run.
RanCheckout(result) == result \in {"Ok", "CheckoutFailed"}

\* The errors prepare_working_directory can return for worker w now.
PrepareErrors(w) ==
    PrepareWorkingDirectoryResults(
        WorkingDirectoryHolders(
            WorkingDirectoryLock(options.execution_strategy, w)) \ {w} # {},
        options.execution_strategy, oracle.faults) \ {"Ok"}

\* lib.rs 2073-2098 with 2302-2419: lock and check out the working directory;
\* every error becomes the status CheckoutFailed and drops the slot's lock.
prepare_working_directory(w) ==
    /\ workers[w].pc = "acquired"
    /\ \/ \E err \in PrepareErrors(w) :
            workers' = [workers EXCEPT ![w] =
                          [Finished(w, CheckoutFailed) EXCEPT
                             !.prepared = TRUE, !.prepare_error = err]]
       \/ /\ "LockFailed" \notin PrepareErrors(w)
          /\ workers' = [workers EXCEPT ![w].pc = "prepared", ![w].prepared = TRUE]
    /\ UNCHANGED <<inputVars, loopVars, cache, work_queue, result_rx, sched, probe>>

\* lib.rs 2443-2511: command.status() starts the shell, or fails to.
test_commit_spawn(w) ==
    /\ workers[w].pc = "prepared"
    /\ \/ workers' = [workers EXCEPT ![w].pc = "running", ![w].spawned = TRUE]
       \/ /\ oracle.faults
          /\ workers' = [workers EXCEPT ![w] = Finished(w, SpawnTestFailed)]
    /\ UNCHANGED <<inputVars, loopVars, cache, work_queue, result_rx, sched, probe>>

\* The texts a write of `json` through a handle opened at acquire time can
\* leave in a result file: the text itself, or, when another writer has
\* written the same file through its own handle, a mix of the two.
WrittenTexts(file, json) ==
    {json} \cup (IF file.contents # <<>> THEN {GarbageJson} ELSE {})

\* lib.rs 2512-2613 and 2124-2128: the command ends; classify the exit, write
\* the record, unlock the working directory, drop the slot's lock.  Handles on
\* files of a removed directory write to nothing.
test_commit_exit(w) ==
    /\ workers[w].pc = "running"
    /\ LET commit_oid == workers[w].job
           slot == SlotOf(commit_oid)
           live == ~workers[w].files_detached
           output == IF live
                     THEN [cache[slot] EXCEPT !.stdout = FileWith(commit_oid),
                                              !.stderr = FileWith(commit_oid)]
                     ELSE cache[slot]
       IN  \/ /\ oracle.faults
              /\ workers' = [workers EXCEPT ![w] = Finished(w, TerminatedBySignal)]
              /\ cache' = [cache EXCEPT ![slot] = output]
           \/ \E exit_code \in ExitCodesOn(commit_oid),
                 snapshot \in SnapshotsOn(commit_oid) :
                LET test_status == TestCommitStatus(exit_code, snapshot,
                                       tree_of[commit_oid], options.interactive)
                    serialized_test_result ==
                        SerializedTestResult(options.command, exit_code,
                                             test_status, options.interactive)
                IN  /\ workers' = [workers EXCEPT ![w] = Finished(w, test_status)]
                    /\ \E text \in WrittenTexts(cache[slot].result,
                                                ToJson(serialized_test_result)) :
                         cache' = [cache EXCEPT ![slot] =
                                     IF live THEN [output EXCEPT !.result = FileWith(text)]
                                     ELSE output]
    /\ UNCHANGED <<inputVars, loopVars, work_queue, result_rx, sched, probe>>

(***************************************************************************)
(* subcommand_clean, run by another process: remove the directory of a     *)
(* commit's tree with every slot in it.  No lock is taken.                 *)
(***************************************************************************)
\* Only the slot of TestCommand is removed.
CleanedCache_one_command(tree_oid) ==
    [slot \in DOMAIN cache |->
       IF slot = <<tree_oid, make_command_slug(TestCommand)>>
       THEN AbsentSlot ELSE cache[slot]]

\* lib.rs 2763-2768: remove_dir_all of the tree's directory: the slots of
\* every command under it are gone.
CleanedCache(tree_oid) ==
    [slot \in DOMAIN cache |->
       IF slot[1] = tree_oid THEN AbsentSlot ELSE cache[slot]]

subcommand_clean(commit_oid) ==
    LET tree_oid == tree_of[commit_oid]
    IN  /\ \E slot \in DOMAIN cache : slot[1] = tree_oid /\ cache[slot].exists
        /\ cache' = CleanedCache(tree_oid)
        /\ workers' = [w \in Workers |->
                         IF HoldsSlotLock(w) /\ tree_of[workers[w].job] = tree_oid
                         THEN [workers[w] EXCEPT
                                 !.lock_detached = TRUE,
                                 !.files_detached = HoldsTestFiles(w)]
                         ELSE workers[w]]
        /\ UNCHANGED <<inputVars, loopVars, work_queue, result_rx, sched, probe>>

(***************************************************************************)
(* The scheduler: run_tests and event_loop.                                *)
(***************************************************************************)
\* lib.rs 1507-1534: the search status of a test status, and whether the
\* status aborts the run.
SearchStatus(test_status) ==
    IF test_status.tag = "Failed" THEN "Failure"
    ELSE IF test_status.tag = "Passed" THEN "Success"
    ELSE "Indeterminate"

\* An event loop that never stops on a result.
IsAbort_never(test_status) == FALSE

IsAbort(test_status) == test_status.tag = "Abort"

\* An initial queue with the whole frontier of the driver.
InitialQueue_whole_frontier(candidates, opts) ==
    IF opts.search_strategy = "None" THEN candidates
    ELSE next_to_search(opts.search_strategy, NewSearch, Len(candidates))

\* lib.rs 1339-1354: the queue run_tests hands to the workers.
InitialQueue(candidates, opts) ==
    IF opts.search_strategy = "None" THEN candidates
    ELSE next_to_search(opts.search_strategy, NewSearch, opts.jobs)

\* A loop that is complete with its first output.
SearchCompleted_first(outputs) == Cardinality(DOMAIN outputs) >= 1

\* lib.rs 1543: without a search strategy the loop is complete when every
\* candidate has an output.
SearchCompleted(outputs) == Cardinality(DOMAIN outputs) = Len(commits)

\* A scheduler that leaves the queue open.
LeaveLoop_open ==
    /\ sched' = [sched EXCEPT !.pc = "closed"]
    /\ work_queue' = work_queue

\* event_loop leaves its loop normally; run_tests closes the queue (lib.rs
\* 1415).
LeaveLoop ==
    /\ sched' = [sched EXCEPT !.pc = "closed"]
    /\ work_queue' = WorkQueueClose(work_queue)

\* lib.rs 1491-1566: one message of the result channel.  In search mode the
\* next frontier is computed in a second step (event_loop_set), so that what
\* the workers do between notify and set is part of the behaviours.
event_loop_recv ==
    /\ sched.pc = "recv"
    /\ result_rx # <<>>
    /\ LET message == Head(result_rx)
           commit_oid == message.job
           test_output == [test_status |-> message.test_status,
                           prepared |-> message.prepared,
                           spawned |-> message.spawned]
           outputs == [c \in DOMAIN test_outputs \cup {commit_oid} |->
                         IF c = commit_oid THEN test_output ELSE test_outputs[c]]
       IN  /\ result_rx' = Tail(result_rx)
           /\ IF message.kind = "Error"
              THEN /\ sched' = [sched EXCEPT !.pc = "failed"]
                   /\ UNCHANGED <<loopVars, work_queue>>
              ELSE /\ search' = notify(search, commit_oid,
                                       SearchStatus(message.test_status))
                   /\ test_outputs' = outputs
                   /\ IF IsAbort(message.test_status)
                      THEN /\ testing_aborted_error' =
                                <<[commit_oid |-> commit_oid,
                                   exit_code |-> message.test_status.exit_code]>>
                           /\ LeaveLoop
                      ELSE /\ UNCHANGED testing_aborted_error
                           /\ IF options.search_strategy = "None"
                              THEN IF SearchCompleted(outputs)
                                   THEN LeaveLoop
                                   ELSE UNCHANGED <<sched, work_queue>>
                              ELSE /\ sched' = [sched EXCEPT !.pc = "notified"]
                                   /\ UNCHANGED work_queue
    /\ UNCHANGED <<inputVars, cache, workers, probe>>

\* A loop that waits on the channel also when there is no candidate.
event_loop_empty_waits ==
    /\ sched.pc = "recv"
    /\ Len(commits) = 0
    /\ result_rx # <<>>
    /\ LeaveLoop
    /\ UNCHANGED <<inputVars, loopVars, cache, workers, result_rx, probe>>

\* lib.rs 1491-1500 and 1415: with no candidate the loop does not wait on the
\* channel: it takes Err(RecvError) at once and ends.
event_loop_empty ==
    /\ sched.pc = "recv"
    /\ Len(commits) = 0
    /\ LeaveLoop
    /\ UNCHANGED <<inputVars, loopVars, cache, workers, result_rx, probe>>

\* lib.rs 1544-1557: ask the driver for the next frontier and set the queue;
\* an empty frontier completes the search.
event_loop_set ==
    /\ sched.pc = "notified"
    /\ LET frontier == next_to_search(options.search_strategy, search, options.jobs)
       IN  IF frontier = <<>>
           THEN /\ sched' = [sched EXCEPT !.pc = "closed"]
                /\ work_queue' = WorkQueueClose(WorkQueueSet(work_queue, frontier))
           ELSE /\ sched' = [sched EXCEPT !.pc = "recv"]
                /\ work_queue' = WorkQueueSet(work_queue, frontier)
    /\ UNCHANGED <<inputVars, loopVars, cache, workers, result_rx, probe>>

\* A summary that counts failures in search mode too.
PrintSummaryExitCode_no_search(outputs, aborted, is_search) ==
    IF aborted THEN 1
    ELSE IF \E c \in DOMAIN outputs : outputs[c].test_status.tag # "Passed" THEN 1
    ELSE 0

\* A summary that counts the statuses without a verdict as passed.
SummaryBucket_lenient(test_status) ==
    IF test_status.tag \in {"Abort", "Failed"} THEN "failed" ELSE "passed"

\* lib.rs 1601-1632: the counter of the summary a status adds to.
SummaryBucket(test_status) ==
    IF test_status.tag \in {"CheckoutFailed", "SpawnTestFailed", "AlreadyInProgress",
                            "ReadCacheFailed", "TerminatedBySignal", "Indeterminate"}
    THEN "skipped"
    ELSE IF test_status.tag \in {"Abort", "Failed"} THEN "failed"
    ELSE "passed"

\* lib.rs 1588-1633: num_passed, num_failed and num_skipped.
SummaryCount(outputs, bucket) ==
    Cardinality({c \in DOMAIN outputs : SummaryBucket(outputs[c].test_status) = bucket})

\* A summary that lets skipped commits pass.
PrintSummaryExitCode_ignores_skipped(outputs, aborted, is_search) ==
    IF aborted THEN 1
    ELSE IF is_search THEN 0
    ELSE IF SummaryCount(outputs, "failed") > 0 THEN 1
    ELSE 0

\* A summary that looks at the search mode before the abort.
PrintSummaryExitCode_search_first(outputs, aborted, is_search) ==
    IF is_search THEN 0
    ELSE IF aborted THEN 1
    ELSE IF SummaryCount(outputs, "failed") > 0
            \/ SummaryCount(outputs, "skipped") > 0 THEN 1
    ELSE 0

\* lib.rs 1588-1633 and 1749-1772: the exit code print_summary returns.
PrintSummaryExitCode(outputs, aborted, is_search) ==
    LET num_failed == SummaryCount(outputs, "failed")
        num_skipped == SummaryCount(outputs, "skipped")
    IN  IF aborted THEN 1
        ELSE IF is_search THEN 0
        ELSE IF num_failed > 0 \/ num_skipped > 0 THEN 1
        ELSE 0

\* The recorded outputs against the order of the candidate list.
TestOutputsOrdered_reversed(candidates, test_outputs_unordered) ==
    LET ordered == SelectSeq(candidates, LAMBDA c : c \in DOMAIN test_outputs_unordered)
    IN  [i \in 1..Len(ordered) |-> ordered[Len(ordered) + 1 - i]]

\* lib.rs 1440-1462: the recorded outputs in the order of the candidate list.
TestOutputsOrdered(candidates, test_outputs_unordered) ==
    SelectSeq(candidates, LAMBDA c : c \in DOMAIN test_outputs_unordered)

\* A caller that applies the fixes whatever the summary returned.
ApplyFixesInvoked_always(exit_code, apply_fixes) == apply_fixes

\* lib.rs 673-695: apply_fixes is called when fixes were asked for and the
\* summary returned success.
ApplyFixesInvoked(exit_code, apply_fixes) == apply_fixes /\ exit_code = 0

\* lib.rs 1357-1436, 1438-1472 and 665-695: the thread scope joins every
\* worker, after the event loop has ended normally and the queue was closed
\* or after event_loop returned an error (`?` at 1413 leaves the scope's
\* closure before close()).  In the first case run_tests orders the outputs
\* by the candidate list and takes the bounds of the search, subcommand_run
\* prints the summary and may apply fixes; in the second run_tests returns
\* the error.
run_tests_return ==
    /\ sched.pc \in {"closed", "failed"}
    /\ \A w \in Workers : workers[w].pc = "exited"
    /\ IF sched.pc = "failed"
       THEN sched' = [sched EXCEPT !.pc = "returned", !.error = TRUE]
       ELSE LET exit_code ==
                    PrintSummaryExitCode(test_outputs, testing_aborted_error # <<>>,
                                         options.search_strategy # "None")
            IN  sched' = [sched EXCEPT
                  !.pc = "returned",
                  !.test_outputs_ordered = TestOutputsOrdered(commits, test_outputs),
                  !.search_bounds =
                      IF options.search_strategy = "None"
                      THEN [success |-> {}, failure |-> {}] ELSE Bounds(search),
                  !.exit_code = exit_code,
                  !.apply_fixes_invoked =
                      ApplyFixesInvoked(exit_code, options.apply_fixes)]
    /\ UNCHANGED <<inputVars, loopVars, cache, workers, work_queue, result_rx, probe>>

\* The scheduler before the first result of a run.
NewSched(run) ==
    [pc |-> "recv", run |-> run, exit_code |-> -1, test_outputs_ordered |-> <<>>,
     search_bounds |-> [success |-> {}, failure |-> {}],
     first_verdicts |-> << >>, error |-> FALSE, apply_fixes_invoked |-> FALSE]

\* The same command is run again on the same candidates with the same
\* options, after the first run has returned.  `first_verdicts` keeps the
\* statuses of the first run that came with a numeric exit code.
run_again ==
    /\ sched.pc = "returned"
    /\ sched.run = 1
    /\ sched' = [NewSched(sched.run + 1) EXCEPT
         !.first_verdicts =
             [c \in {d \in DOMAIN test_outputs :
                       test_outputs[d].test_status.tag \in
                         {"Passed", "Failed", "Indeterminate", "Abort"}} |->
                test_outputs[c].test_status]]
    /\ workers' = [w \in Workers |-> IdleWorker]
    /\ work_queue' = [jobs |-> InitialQueue(commits, options), closed |-> FALSE]
    /\ result_rx' = <<>>
    /\ search' = NewSearch
    /\ test_outputs' = << >>
    /\ testing_aborted_error' = <<>>
    /\ UNCHANGED <<inputVars, cache, probe>>

(***************************************************************************)
(* Initial states: run_tests has built the jobs, seeded the queue and      *)
(* started the workers.                                                    *)
(***************************************************************************)
Chain(n) == [c \in 1..n |-> c - 1]

\* The trees of n commits: all different, or the last commit has the tree of
\* the first (a change and its revert).
TreeMaps(n) ==
    {[c \in 1..n |-> c], [c \in 1..n |-> IF c = n THEN 1 ELSE c]}

NoProbe == [kind |-> "none"]

InitRunState(n, opts) ==
    /\ commits = [i \in 1..n |-> i]
    /\ parent_of = Chain(n)
    /\ options = opts
    /\ workers = [w \in 1..opts.jobs |-> IdleWorker]
    /\ work_queue = [jobs |-> InitialQueue(commits, opts), closed |-> FALSE]
    /\ result_rx = <<>>
    /\ search = NewSearch
    /\ test_outputs = << >>
    /\ testing_aborted_error = <<>>
    /\ sched = NewSched(1)
    /\ probe = NoProbe

AnyCommand == [kind |-> "any", pass_up_to |-> 0, faults |-> TRUE, fixes |-> FALSE]

\* The resolved options of the runs without a search strategy.
PlainOptions(strategies) ==
    [command : {TestCommand},
     execution_strategy : strategies,
     search_strategy : {"None"},
     jobs : 1..MaxJobs,
     interactive : {FALSE},
     apply_fixes : {FALSE}]

WorkerStep(w) ==
    \/ pull(w)
    \/ make_test_files_lock(w)
    \/ make_test_files_read(w)
    \/ prepare_working_directory(w)
    \/ test_commit_spawn(w)
    \/ test_commit_exit(w)
    \/ send(w)
    \/ worker_exit(w)

(***************************************************************************)
(* SpecRun: one run without a search strategy over MaxCommits commits, on  *)
(* an empty cache; the command may do anything.                            *)
(***************************************************************************)
InitRun ==
    /\ \E opts \in PlainOptions({"WorkingCopy", "Worktree"}) :
          InitRunState(MaxCommits, opts)
    /\ tree_of \in TreeMaps(MaxCommits)
    /\ oracle = AnyCommand
    /\ cache = [slot \in Slots |-> AbsentSlot]

NextRun ==
    \/ \E w \in Workers : WorkerStep(w)
    \/ event_loop_recv
    \/ run_tests_return

SpecRun == InitRun /\ [][NextRun]_vars

(***************************************************************************)
(* SpecRerun: the same command run twice over RerunCommits commits with    *)
(* identical inputs, the second run after the first has returned; the      *)
(* command may do anything.                                                *)
(***************************************************************************)
InitRerun ==
    /\ \E opts \in PlainOptions({"Worktree"}) : InitRunState(RerunCommits, opts)
    /\ tree_of \in TreeMaps(RerunCommits)
    /\ oracle = AnyCommand
    /\ cache = [slot \in Slots |-> AbsentSlot]

NextRerun ==
    \/ NextRun
    \/ run_again

SpecRerun == InitRerun /\ [][NextRerun]_vars

(***************************************************************************)
(* SpecCorrupt: SpecRerun over HostCommits commits on a cache in which the *)
(* slot of the first commit holds a result that is not empty and does not  *)
(* parse.                                                                  *)
(***************************************************************************)
CorruptSlot ==
    [exists |-> TRUE, result |-> FileWith(GarbageJson), stdout |-> EmptyFile,
     stderr |-> EmptyFile]

InitCorrupt ==
    /\ \E opts \in PlainOptions({"Worktree"}) : InitRunState(HostCommits, opts)
    /\ tree_of \in TreeMaps(HostCommits)
    /\ oracle = AnyCommand
    /\ cache = [slot \in Slots |->
                  IF slot[1] = tree_of[1] THEN CorruptSlot ELSE AbsentSlot]

SpecCorrupt == InitCorrupt /\ [][NextRerun]_vars

(***************************************************************************)
(* Spec: one run over HostCommits commits while another process cleans     *)
(* cached results; a slot may hold the empty result of a crashed writer,   *)
(* and the command may do anything, also fix files.                        *)
(***************************************************************************)
Init ==
    /\ \E opts \in PlainOptions({"Worktree"}) : InitRunState(HostCommits, opts)
    /\ tree_of \in TreeMaps(HostCommits)
    /\ oracle = [AnyCommand EXCEPT !.fixes = TRUE]
    /\ \E crashed \in {{}, {1}} :
          cache = [slot \in Slots |->
                     IF slot[1] \in crashed THEN CrashedSlot ELSE AbsentSlot]

Next ==
    \/ NextRun
    \/ \E c \in CommitSet : subcommand_clean(c)

Spec == Init /\ [][Next]_vars

(***************************************************************************)
(* SpecLive: Spec with the scheduling of its threads.  The workers and the *)
(* scheduler are operating-system threads of one process: each of them     *)
(* takes its next step as long as it has one (a spawned command            *)
(* terminates, a blocked pull() or recv() has no step).  The cleaning      *)
(* process is under no obligation to run.                                  *)
(***************************************************************************)
SchedulerStep == event_loop_recv \/ run_tests_return

Fairness ==
    /\ \A w \in 1..MaxJobs : WF_vars(w \in Workers /\ WorkerStep(w))
    /\ WF_vars(SchedulerStep)

SpecLive == Init /\ [][Next]_vars /\ Fairness

(***************************************************************************)
(* SpecSearch: one run with a search strategy and up to MaxJobs workers     *)
(* over a linear chain of SearchCommits commits with different trees, on   *)
(* an empty cache.  The command passes up to some commit of the chain      *)
(* (possibly none) and fails on the later ones.                            *)
(***************************************************************************)
InitSearch ==
    /\ \E opts \in [command : {TestCommand},
                    execution_strategy : {"Worktree"},
                    search_strategy : {"Linear", "LinearReverse", "Binary"},
                    jobs : 1..MaxJobs,
                    interactive : {FALSE},
                    apply_fixes : {FALSE}] :
          InitRunState(SearchCommits, opts)
    /\ tree_of = [c \in 1..SearchCommits |-> c]
    /\ oracle \in {[kind |-> "chain", pass_up_to |-> p, faults |-> FALSE,
                    fixes |-> FALSE] : p \in 0..SearchCommits}
    /\ cache = [slot \in Slots |-> AbsentSlot]

NextSearch ==
    \/ NextRun
    \/ event_loop_set

SpecSearch == InitSearch /\ [][NextSearch]_vars

(***************************************************************************)
(* SpecFrontier: SpecSearch with the runs without a search strategy as     *)
(* well.                                                                   *)
(***************************************************************************)
InitFrontier ==
    /\ \E opts \in [command : {TestCommand},
                    execution_strategy : {"Worktree"},
                    search_strategy : {"None", "Linear", "LinearReverse", "Binary"},
                    jobs : 1..MaxJobs,
                    interactive : {FALSE},
                    apply_fixes : {FALSE}] :
          InitRunState(SearchCommits, opts)
    /\ tree_of = [c \in 1..SearchCommits |-> c]
    /\ oracle \in {[kind |-> "chain", pass_up_to |-> p, faults |-> FALSE,
                    fixes |-> FALSE] : p \in 0..SearchCommits}
    /\ cache = [slot \in Slots |-> AbsentSlot]

SpecFrontier == InitFrontier /\ [][NextSearch]_vars

(***************************************************************************)
(* SpecBisect: `--search binary` with the default single worker over a     *)
(* linear chain of ChainLen commits; the command passes up to some commit  *)
(* of the chain and fails on the later ones.                               *)
(***************************************************************************)
InitBisect ==
    /\ InitRunState(ChainLen,
                    [command |-> TestCommand, execution_strategy |-> "WorkingCopy",
                     search_strategy |-> "Binary", jobs |-> 1,
                     interactive |-> FALSE, apply_fixes |-> FALSE])
    /\ tree_of = [c \in 1..ChainLen |-> c]
    /\ oracle \in {[kind |-> "chain", pass_up_to |-> p, faults |-> FALSE,
                    fixes |-> FALSE] : p \in 0..ChainLen}
    /\ cache = [slot \in Slots |-> AbsentSlot]

SpecBisect == InitBisect /\ [][NextSearch]_vars

(***************************************************************************)
(* SpecAny: one run of `git test run` or `git test fix` under any resolved *)
(* options over at most SmallCommits candidates, possibly none, on an      *)
(* empty cache; the command may do anything.  `fix` has no search strategy *)
(* and asks for fixes to be applied (lib.rs 546-566).                      *)
(***************************************************************************)
RunOptions ==
    [command : {TestCommand},
     execution_strategy : {"WorkingCopy", "Worktree"},
     search_strategy : {"None", "Linear", "LinearReverse", "Binary"},
     jobs : 1..MaxJobs,
     interactive : {FALSE},
     apply_fixes : {FALSE}]

FixOptions ==
    [command : {TestCommand},
     execution_strategy : {"WorkingCopy", "Worktree"},
     search_strategy : {"None"},
     jobs : 1..MaxJobs,
     interactive : {FALSE},
     apply_fixes : {TRUE}]

InitAny ==
    /\ \E n \in 0..SmallCommits :
          /\ \E opts \in RunOptions \cup FixOptions : InitRunState(n, opts)
          /\ tree_of \in TreeMaps(n)
    /\ oracle = [AnyCommand EXCEPT !.fixes = options.apply_fixes]
    /\ cache = [slot \in Slots |-> AbsentSlot]

NextAny ==
    \/ NextSearch
    \/ event_loop_empty

SpecAny == InitAny /\ [][NextAny]_vars

(***************************************************************************)
(* SpecFixRun: one run of `git test fix` over HostCommits candidates on an *)
(* empty cache, in worktrees; the command may return any exit code and may *)
(* change files.                                                           *)
(***************************************************************************)
InitFixRun ==
    /\ \E opts \in {o \in FixOptions : o.execution_strategy = "Worktree"} :
          InitRunState(HostCommits, opts)
    /\ tree_of \in TreeMaps(HostCommits)
    /\ oracle = [AnyCommand EXCEPT !.faults = FALSE, !.fixes = TRUE]
    /\ cache = [slot \in Slots |-> AbsentSlot]

SpecFixRun == InitFixRun /\ [][NextRun]_vars

(***************************************************************************)
(* SpecAnyLive: a run under any resolved options over at most SmallCommits *)
(* candidates with different trees, possibly none, with the scheduling of  *)
(* its threads.  The command passes up to some candidate and fails on the  *)
(* later ones, and always terminates.                                      *)
(***************************************************************************)
InitAnyLive ==
    /\ \E n \in 0..SmallCommits :
          /\ \E opts \in RunOptions \cup FixOptions : InitRunState(n, opts)
          /\ tree_of = [c \in 1..n |-> c]
    /\ oracle \in {[kind |-> "chain", pass_up_to |-> p, faults |-> FALSE,
                    fixes |-> FALSE] : p \in 0..Len(commits)}
    /\ cache = [slot \in Slots |-> AbsentSlot]

FairnessAny ==
    /\ Fairness
    /\ WF_vars(event_loop_set)
    /\ WF_vars(event_loop_empty)

SpecAnyLive == InitAnyLive /\ [][NextAny]_vars /\ FairnessAny

(***************************************************************************)
(* SpecCache: the pure functions of the cache record.  A command returned  *)
(* an exit code and left a snapshot; test_commit classifies it and writes  *)
(* the record (probe_test_commit), make_test_files parses the text and     *)
(* derives the cached status (probe_make_test_files).                      *)
(***************************************************************************)
ProbeSnapshots(commit_tree_oid) ==
    [changes_type : WorkingCopyChangesType,
     tree_oid : {0, commit_tree_oid, commit_tree_oid + 16}]

InitCache ==
    /\ commits = <<>>
    /\ parent_of = << >>
    /\ tree_of = << >>
    /\ options = [command |-> TestCommand, execution_strategy |-> "WorkingCopy",
                  search_strategy |-> "None", jobs |-> 1, interactive |-> FALSE,
                  apply_fixes |-> FALSE]
    /\ oracle = AnyCommand
    /\ cache = << >>
    /\ workers = << >>
    /\ work_queue = [jobs |-> <<>>, closed |-> FALSE]
    /\ result_rx = <<>>
    /\ search = NewSearch
    /\ test_outputs = << >>
    /\ testing_aborted_error = <<>>
    /\ sched = NewSched(1)
    /\ \E exit_code \in 0..MaxExitCode, interactive \in BOOLEAN,
          snapshot \in ProbeSnapshots(1) :
          probe = [kind |-> "input", exit_code |-> exit_code,
                   interactive |-> interactive, snapshot |-> snapshot,
                   commit_tree_oid |-> 1]

probe_test_commit ==
    /\ probe.kind = "input"
    /\ LET test_status == TestCommitStatus(probe.exit_code, probe.snapshot,
                                           probe.commit_tree_oid, probe.interactive)
           serialized_test_result ==
               SerializedTestResult(options.command, probe.exit_code,
                                    test_status, probe.interactive)
       IN  probe' = [kind |-> "written", exit_code |-> probe.exit_code,
                     interactive |-> probe.interactive, snapshot |-> probe.snapshot,
                     commit_tree_oid |-> probe.commit_tree_oid,
                     test_status |-> test_status,
                     record |-> serialized_test_result,
                     contents |-> ToJson(serialized_test_result)]
    /\ UNCHANGED <<inputVars, loopVars, cache, workers, work_queue, result_rx, sched>>

probe_make_test_files ==
    /\ probe.kind = "written"
    /\ probe' = [kind |-> "read", exit_code |-> probe.exit_code,
                 interactive |-> probe.interactive, snapshot |-> probe.snapshot,
                 commit_tree_oid |-> probe.commit_tree_oid,
                 test_status |-> probe.test_status,
                 record |-> probe.record,
                 contents |-> probe.contents,
                 parsed |-> FromJson(probe.contents),
                 cached_status |-> CachedStatus(probe.contents)]
    /\ UNCHANGED <<inputVars, loopVars, cache, workers, work_queue, result_rx, sched>>

NextCache ==
    \/ probe_test_commit
    \/ probe_make_test_files

SpecCache == InitCache /\ [][NextCache]_vars

(***************************************************************************)
(* SpecResolve: ResolvedTestOptions::resolve on the options of `git test   *)
(* run` and `git test fix` (lib.rs 484-566), every configuration and       *)
(* environment.  Nothing else of the program has started.                  *)
(***************************************************************************)
OptionOf(S) == {<<>>} \cup {<<x>> : x \in S}

\* The arguments of `git test run`, `show` and `fix` (TestSubcommand); exec
\* and command conflict (clap).  `move_options_ok`: the move options of fix
\* pass the checks of resolve (lib.rs 385-437).
TestArgs ==
    {a \in [subcommand : {"Run", "Show", "Fix"},
            exec : BOOLEAN,
            command_alias : BOOLEAN,
            strategy : OptionOf({"WorkingCopy", "Worktree"}),
            search : {"None", "Linear"},
            bisect : BOOLEAN,
            interactive : BOOLEAN,
            jobs : OptionOf(0..MaxJobs),
            dry_run : BOOLEAN,
            move_options_ok : BOOLEAN] :
        ~(a.exec /\ a.command_alias)}

\* fix with the search options of run.
CommandMain_fix_search(a) ==
    [exec |-> a.exec, command_alias |-> a.command_alias,
     dry_run |-> a.subcommand = "Fix" /\ a.dry_run,
     strategy |-> a.strategy, search |-> a.search, bisect |-> a.bisect,
     interactive |-> FALSE, jobs |-> a.jobs,
     apply_fixes |-> a.subcommand = "Fix",
     fix_options_ok |-> a.subcommand = "Fix" => a.move_options_ok]

\* lib.rs 484-566: the RawTestOptions command_main builds for a subcommand.
CommandMain(a) ==
    IF a.subcommand = "Run"
    THEN [exec |-> a.exec, command_alias |-> a.command_alias, dry_run |-> FALSE,
          strategy |-> a.strategy, search |-> a.search, bisect |-> a.bisect,
          interactive |-> a.interactive, jobs |-> a.jobs,
          apply_fixes |-> FALSE, fix_options_ok |-> TRUE]
    ELSE IF a.subcommand = "Show"
    THEN [exec |-> a.exec, command_alias |-> a.command_alias, dry_run |-> FALSE,
          strategy |-> <<>>, search |-> "None", bisect |-> FALSE,
          interactive |-> FALSE, jobs |-> <<>>,
          apply_fixes |-> FALSE, fix_options_ok |-> TRUE]
    ELSE [exec |-> a.exec, command_alias |-> a.command_alias, dry_run |-> a.dry_run,
          strategy |-> a.strategy, search |-> "None", bisect |-> FALSE,
          interactive |-> FALSE, jobs |-> a.jobs,
          apply_fixes |-> TRUE, fix_options_ok |-> a.move_options_ok]

RawTestOptions == {CommandMain(a) : a \in TestArgs}

Configs ==
    [strategy : OptionOf({"working-copy", "worktree", "bogus"}),
     jobs : OptionOf(-1..MaxJobs),
     alias_defined : BOOLEAN]

Environments == [shell : BOOLEAN, num_cpus : 1..MaxCpus]

InitResolve ==
    /\ commits = <<>>
    /\ parent_of = << >>
    /\ tree_of = << >>
    /\ options = [command |-> TestCommand, execution_strategy |-> "WorkingCopy",
                  search_strategy |-> "None", jobs |-> 1, interactive |-> FALSE,
                  apply_fixes |-> FALSE]
    /\ oracle = AnyCommand
    /\ cache = << >>
    /\ workers = << >>
    /\ work_queue = [jobs |-> <<>>, closed |-> FALSE]
    /\ result_rx = <<>>
    /\ search = NewSearch
    /\ test_outputs = << >>
    /\ testing_aborted_error = <<>>
    /\ sched = NewSched(1)
    /\ \E raw \in RawTestOptions, config \in Configs, env \in Environments :
          probe = [kind |-> "raw", raw |-> raw, config |-> config, env |-> env]

probe_resolve ==
    /\ probe.kind = "raw"
    /\ probe' = [kind |-> "resolved", raw |-> probe.raw, config |-> probe.config,
                 env |-> probe.env,
                 resolved |-> Resolve(probe.raw, probe.config, probe.env)]
    /\ UNCHANGED <<inputVars, loopVars, cache, workers, work_queue, result_rx, sched>>

NextResolve == probe_resolve

SpecResolve == InitResolve /\ [][NextResolve]_vars

(***************************************************************************)
(* The working-directory locks on their own: prepare_working_directory     *)
(* called by any process for any strategy and worker id while some         *)
(* PreparedWorkingDirectory values are held (lib.rs 2798-2855).            *)
(***************************************************************************)
MaxCheckouts == 3

Strategies == {"WorkingCopy", "Worktree"}

\* No run in progress: the state of every variable but probe.
InitNoRun ==
    /\ commits = <<>>
    /\ parent_of = << >>
    /\ tree_of = << >>
    /\ options = [command |-> TestCommand, execution_strategy |-> "WorkingCopy",
                  search_strategy |-> "None", jobs |-> 1, interactive |-> FALSE,
                  apply_fixes |-> FALSE]
    /\ oracle = AnyCommand
    /\ cache = << >>
    /\ workers = << >>
    /\ work_queue = [jobs |-> <<>>, closed |-> FALSE]
    /\ result_rx = <<>>
    /\ search = NewSearch
    /\ test_outputs = << >>
    /\ testing_aborted_error = <<>>
    /\ sched = NewSched(1)

\* `held`: the (strategy, worker id) of the PreparedWorkingDirectory values
\* alive; `call`: the last call and its result; `checkouts`: the number of
\* reset/checkout commands run so far.
InitLock ==
    /\ InitNoRun
    /\ probe = [kind |-> "locks", held |-> {}, call |-> <<>>, checkouts |-> 0]

\* The lock files locked by the values in `held`.
HeldLocks(held) == {WorkingDirectoryLock(h[1], h[2]) : h \in held}

probe_prepare_working_directory ==
    /\ probe.kind = "locks"
    /\ \E strategy \in Strategies, worker_id \in 1..MaxJobs :
         \E result \in PrepareWorkingDirectoryResults(
                           WorkingDirectoryLock(strategy, worker_id)
                               \in HeldLocks(probe.held),
                           strategy, TRUE) :
            /\ RanCheckout(result) => probe.checkouts < MaxCheckouts
            /\ probe' = [probe EXCEPT
                           !.held = IF result = "Ok"
                                    THEN @ \cup {<<strategy, worker_id>>} ELSE @,
                           !.call = <<[strategy |-> strategy, worker_id |-> worker_id,
                                       result |-> result]>>,
                           !.checkouts = IF RanCheckout(result) THEN @ + 1 ELSE @]
    /\ UNCHANGED <<inputVars, loopVars, cache, workers, work_queue, result_rx, sched>>

\* A PreparedWorkingDirectory is dropped: its lock file is unlocked.
probe_drop_prepared ==
    /\ probe.kind = "locks"
    /\ \E h \in probe.held : probe' = [probe EXCEPT !.held = @ \ {h}]
    /\ UNCHANGED <<inputVars, loopVars, cache, workers, work_queue, result_rx, sched>>

NextLock == probe_prepare_working_directory \/ probe_drop_prepared

SpecLock == InitLock /\ [][NextLock]_vars

(***************************************************************************)
(* SpecShow: `git test clean` over a set of commits followed by `git test  *)
(* show` over the same set with some command, by one process and with no  *)
(* run going on; before, the slots of the commits' trees hold anything,    *)
(* under two commands.                                                     *)
(***************************************************************************)
OtherCommand == <<"m", " ", "k">>

Commands == {TestCommand, OtherCommand}

\* A slot with the record of a passed run.
PassedSlot ==
    [exists |-> TRUE,
     result |-> FileWith(ToJson(SerializedTestResult(
                   TestCommand, 0, Passed(FALSE, 0, FALSE), FALSE))),
     stdout |-> EmptyFile, stderr |-> EmptyFile]

\* sorted_commit_set: the commits of a set in the order of the candidates.
sorted_commit_set(commit_set) ==
    [i \in 1..Cardinality(commit_set) |->
       CHOOSE c \in commit_set : Cardinality({d \in commit_set : d <= c}) = i]

InitShow ==
    /\ commits = [i \in 1..HostCommits |-> i]
    /\ parent_of = Chain(HostCommits)
    /\ tree_of \in TreeMaps(HostCommits)
    /\ \E command \in Commands :
          options = [command |-> command, execution_strategy |-> "WorkingCopy",
                     search_strategy |-> "None", jobs |-> 1, interactive |-> FALSE,
                     apply_fixes |-> FALSE]
    /\ oracle = AnyCommand
    /\ cache \in [Trees \X {make_command_slug(c) : c \in Commands} ->
                    {AbsentSlot, CrashedSlot, PassedSlot}]
    /\ workers = << >>
    /\ work_queue = [jobs |-> <<>>, closed |-> FALSE]
    /\ result_rx = <<>>
    /\ search = NewSearch
    /\ test_outputs = << >>
    /\ testing_aborted_error = <<>>
    /\ sched = NewSched(1)
    /\ \E commit_set \in SUBSET CommitSet :
          probe = [kind |-> "clean", commits |-> sorted_commit_set(commit_set),
                   pos |-> 1, before |-> cache, reports |-> <<>>]

\* lib.rs 2758-2779: one turn of the loop of subcommand_clean.
probe_clean_commit ==
    /\ probe.kind = "clean"
    /\ probe.pos <= Len(probe.commits)
    /\ cache' = CleanedCache(tree_of[probe.commits[probe.pos]])
    /\ probe' = [probe EXCEPT !.pos = @ + 1]
    /\ UNCHANGED <<inputVars, loopVars, workers, work_queue, result_rx, sched>>

\* subcommand_clean has returned and subcommand_show starts.
probe_show_start ==
    /\ probe.kind = "clean"
    /\ probe.pos > Len(probe.commits)
    /\ probe' = [probe EXCEPT !.kind = "show", !.pos = 1]
    /\ UNCHANGED <<inputVars, loopVars, cache, workers, work_queue, result_rx, sched>>

\* lib.rs 2665-2690 with 2178-2285: one turn of the loop of subcommand_show.
\* make_test_files creates the slot directory, locks pid.lock (nobody else
\* holds it) and reads `result`: a non-empty file is reported with its
\* status, otherwise the three files are created and "No cached test data"
\* is reported; the lock is dropped at the end of the turn.
probe_show_commit ==
    /\ probe.kind = "show"
    /\ probe.pos <= Len(probe.commits)
    /\ LET slot == SlotOf(probe.commits[probe.pos])
           result == cache[slot].result
       IN  IF result.exists /\ result.contents # <<>>
           THEN /\ cache' = cache
                /\ probe' = [probe EXCEPT
                               !.pos = @ + 1,
                               !.reports = Append(@,
                                   CachedStatus(result.contents[1]).tag)]
           ELSE /\ cache' = [cache EXCEPT ![slot] = CrashedSlot]
                /\ probe' = [probe EXCEPT
                               !.pos = @ + 1,
                               !.reports = Append(@, "No cached test data")]
    /\ UNCHANGED <<inputVars, loopVars, workers, work_queue, result_rx, sched>>

NextShow ==
    \/ probe_clean_commit
    \/ probe_show_start
    \/ probe_show_commit

SpecShow == InitShow /\ [][NextShow]_vars

(***************************************************************************)
(* SpecFix: apply_fixes on the results of a run over HostCommits commits,  *)
(* with and without dry_run.  A commit object is its content (tree,        *)
(* message, author, committer, parents), which is what its oid names: two  *)
(* commits with the same content are the same commit.  The author,         *)
(* committer and message of candidate c are c.                             *)
(***************************************************************************)
RECURSIVE CommitObject(_)
CommitObject(c) ==
    [tree |-> tree_of[c], message |-> c, author |-> c, committer |-> c,
     parents |-> IF parent_of[c] = 0 THEN <<>>
                 ELSE <<CommitObject(parent_of[c])>>]

\* lib.rs 1787-1811: the results that carry a fixed tree.
FixedTreeOids(outputs) ==
    SelectSeq(commits, LAMBDA c :
        /\ c \in DOMAIN outputs
        /\ outputs[c].test_status.tag = "Passed"
        /\ outputs[c].test_status.fixed_tree_oid # 0)

\* lib.rs 1835-1842: repo.create_commit with the original's author,
\* committer, message and parents and the fixed tree.
FixedCommit(c, fixed_tree_oid) == [CommitObject(c) EXCEPT !.tree = fixed_tree_oid]

\* Fixes that keep a fixed commit equal to its original.
Fixes_keep_equal(outputs) ==
    LET with_tree == FixedTreeOids(outputs)
    IN  [i \in 1..Len(with_tree) |->
           [original_commit_oid |-> CommitObject(with_tree[i]),
            original_commit_parent_oids |-> CommitObject(with_tree[i]).parents,
            fixed_commit_oid |->
                FixedCommit(with_tree[i],
                            outputs[with_tree[i]].test_status.fixed_tree_oid)]]

\* lib.rs 1819-1863: the fixes, in the order of the results; a fixed commit
\* equal to the original is skipped.
Fixes(outputs) ==
    LET with_tree == FixedTreeOids(outputs)
        fix(c) == [original_commit_oid |-> CommitObject(c),
                   original_commit_parent_oids |-> CommitObject(c).parents,
                   fixed_commit_oid |->
                       FixedCommit(c, outputs[c].test_status.fixed_tree_oid)]
        kept == SelectSeq(with_tree, LAMBDA c :
                    fix(c).original_commit_oid # fix(c).fixed_commit_oid)
    IN  [i \in 1..Len(kept) |-> fix(kept[i])]

\* lib.rs 1884-1916: the replace_commit calls made on the builder, as pairs
\* <<original, replacement>>: every fix, then every visible descendant of an
\* original that is not itself an original, replaced by itself.
ReplaceCommitCalls(fixes, visible) ==
    LET original_oids == {fixes[i].original_commit_oid : i \in DOMAIN fixes}
        descendant_oids ==
            {CommitObject(d) :
               d \in {d \in DOMAIN parent_of :
                        \E a \in DagAncestors(d) : CommitObject(a) \in original_oids}}
        visible_oids == {CommitObject(d) : d \in visible}
    IN  {<<fixes[i].original_commit_oid, fixes[i].fixed_commit_oid>> :
           i \in DOMAIN fixes}
        \cup {<<oid, oid>> : oid \in (descendant_oids \cap visible_oids) \ original_oids}

\* RebasePlanBuilder::build for the fixes: a plan that replaces every
\* original by its fixed commit, or no plan when there is nothing to replace.
BuildRebasePlan(fixes) ==
    IF fixes = <<>> THEN [kind |-> "None"] ELSE [kind |-> "Some", plan |-> fixes]

\* execute_rebase_plan: the results of the rebase executor.
ExecuteRebasePlanResults == {"Succeeded", "DeclinedToMerge", "Failed"}

\* A caller that executes the plan of a dry run too.
ExecutesPlan_always(dry_run) == TRUE

\* lib.rs 1938-1941: the plan is executed unless this is a dry run.
ExecutesPlan(dry_run) == ~dry_run

\* lib.rs 1776-2034: what apply_fixes does and returns when the executor,
\* if called, returns `execute_result`.  `executed`: execute_rebase_plan was
\* called (commits, branches and the working copy are rewritten by it);
\* `created`: the commit objects written with create_commit; `mappings`: the
\* lines "original -> fixed" printed; `dry_run_notice`: the closing line of a
\* dry run.
ApplyFixes(outputs, dry_run, execute_result) ==
    LET fixes == Fixes(outputs)
        created == {FixedCommit(c, outputs[c].test_status.fixed_tree_oid) :
                      c \in Range(FixedTreeOids(outputs))}
        rebase_plan == BuildRebasePlan(fixes)
        nothing == [executed |-> FALSE, created |-> created, mappings |-> <<>>,
                    dry_run_notice |-> FALSE, exit_code |-> 0]
        report == [nothing EXCEPT
                     !.mappings = [i \in 1..Len(fixes) |->
                                     <<fixes[i].original_commit_oid,
                                       fixes[i].fixed_commit_oid>>],
                     !.dry_run_notice = dry_run]
    IN  IF rebase_plan.kind = "None" THEN nothing
        ELSE IF rebase_plan.kind = "Err" THEN [nothing EXCEPT !.exit_code = 1]
        ELSE IF ~ExecutesPlan(dry_run) THEN report
        ELSE IF execute_result = "Succeeded" THEN [report EXCEPT !.executed = TRUE]
        ELSE [nothing EXCEPT !.executed = TRUE, !.exit_code = 1]

\* The statuses of a result handed to apply_fixes: failed, passed with no
\* change, passed with a fixed tree (which may be the commit's own tree when
\* the record comes from elsewhere).
FixStatuses ==
    {Failed(FALSE, 1, FALSE)} \cup {Passed(FALSE, t, FALSE) : t \in 0..(HostCommits + 1)}

InitFix ==
    /\ commits = [i \in 1..HostCommits |-> i]
    /\ parent_of = Chain(HostCommits)
    /\ tree_of \in TreeMaps(HostCommits)
    /\ options = [command |-> TestCommand, execution_strategy |-> "WorkingCopy",
                  search_strategy |-> "None", jobs |-> 1, interactive |-> FALSE,
                  apply_fixes |-> TRUE]
    /\ oracle = [AnyCommand EXCEPT !.fixes = TRUE]
    /\ cache = << >>
    /\ workers = << >>
    /\ work_queue = [jobs |-> <<>>, closed |-> TRUE]
    /\ result_rx = <<>>
    /\ search = NewSearch
    /\ \E statuses \in [CommitSet -> FixStatuses] :
          test_outputs = [c \in CommitSet |->
                            [test_status |-> statuses[c], prepared |-> TRUE,
                             spawned |-> TRUE]]
    /\ testing_aborted_error = <<>>
    /\ sched = NewSched(1)
    /\ \E dry_run \in BOOLEAN, visible \in SUBSET CommitSet :
          probe = [kind |-> "fix", dry_run |-> dry_run, visible |-> visible]

probe_apply_fixes ==
    /\ probe.kind = "fix"
    /\ \E execute_result \in ExecuteRebasePlanResults :
          probe' = [kind |-> "fixed", dry_run |-> probe.dry_run,
                    visible |-> probe.visible,
                    fixes |-> Fixes(test_outputs),
                    replace_commit |->
                        ReplaceCommitCalls(Fixes(test_outputs), probe.visible),
                    result |-> ApplyFixes(test_outputs, probe.dry_run, execute_result)]
    /\ UNCHANGED <<inputVars, loopVars, cache, workers, work_queue, result_rx, sched>>

NextFix == probe_apply_fixes

SpecFix == InitFix /\ [][NextFix]_vars

(***************************************************************************)
(* SpecTrap: subcommand_run around run_tests: set_abort_trap, the run of   *)
(* Spec (another process may clean cached results), clear_abort_trap.      *)
(* probe holds what subcommand_run knows: whether the repository has an    *)
(* operation in progress and a commit checked out, the AbortTrap ("unset"  *)
(* before set_abort_trap, "inactive" for is_active: false, "active",       *)
(* "failed" when set_abort_trap returned an exit code, "cleared" after a   *)
(* successful `git rebase --abort`, "abort_failed" after a failed one),    *)
(* and the exit code subcommand_run returned from these steps (-1: none).  *)
(***************************************************************************)
InitTrap ==
    /\ commits = [i \in 1..HostCommits |-> i]
    /\ parent_of = Chain(HostCommits)
    /\ tree_of \in TreeMaps(HostCommits)
    /\ options \in PlainOptions({"WorkingCopy", "Worktree"})
    /\ oracle = AnyCommand
    /\ cache = [slot \in Slots |-> AbsentSlot]
    /\ workers = << >>
    /\ work_queue = [jobs |-> <<>>, closed |-> FALSE]
    /\ result_rx = <<>>
    /\ search = NewSearch
    /\ test_outputs = << >>
    /\ testing_aborted_error = <<>>
    /\ sched = [NewSched(1) EXCEPT !.pc = "start"]
    /\ \E operation_in_progress \in BOOLEAN, head_checked_out \in BOOLEAN :
          probe = [kind |-> "subcommand_run",
                   operation_in_progress |-> operation_in_progress,
                   head_checked_out |-> head_checked_out,
                   abort_trap |-> "unset", exit_code |-> -1]

\* lib.rs 712-793.  The exit code of a failed executor is taken to be 1.
set_abort_trap ==
    /\ probe.kind = "subcommand_run"
    /\ probe.abort_trap = "unset"
    /\ IF options.execution_strategy = "Worktree"
       THEN probe' = [probe EXCEPT !.abort_trap = "inactive"]
       ELSE IF probe.operation_in_progress \/ ~probe.head_checked_out
       THEN probe' = [probe EXCEPT !.abort_trap = "failed", !.exit_code = 1]
       ELSE \E result \in ExecuteRebasePlanResults :
               probe' = IF result = "Succeeded"
                        THEN [probe EXCEPT !.abort_trap = "active"]
                        ELSE [probe EXCEPT !.abort_trap = "failed",
                                           !.exit_code = 1]
    /\ UNCHANGED <<inputVars, loopVars, cache, workers, work_queue, result_rx, sched>>

\* lib.rs 636: sorted_commit_set returns an error and `?` returns it from
\* subcommand_run (the command exits with 1); the AbortTrap, which has no
\* destructor (lib.rs 700-704), is dropped as it is.
sorted_commit_set_error ==
    /\ probe.kind = "subcommand_run"
    /\ probe.abort_trap \in {"active", "inactive"}
    /\ probe.exit_code = -1
    /\ sched.pc = "start"
    /\ probe' = [probe EXCEPT !.exit_code = 1]
    /\ UNCHANGED <<inputVars, loopVars, cache, workers, work_queue, result_rx, sched>>

\* lib.rs 636-655 with 1339-1398: run_tests seeds the queue and starts the
\* workers.
run_tests_start ==
    /\ probe.kind = "subcommand_run"
    /\ probe.abort_trap \in {"active", "inactive"}
    /\ probe.exit_code = -1
    /\ sched.pc = "start"
    /\ workers' = [w \in 1..options.jobs |-> IdleWorker]
    /\ work_queue' = [jobs |-> InitialQueue(commits, options), closed |-> FALSE]
    /\ sched' = [sched EXCEPT !.pc = "recv"]
    /\ UNCHANGED <<inputVars, loopVars, cache, result_rx, probe>>

\* lib.rs 656-664 with 796-823: run_tests has returned, with results or with
\* an error; an active trap is released with `git rebase --abort`, whose
\* failure is the exit code of the run.
clear_abort_trap ==
    /\ probe.kind = "subcommand_run"
    /\ sched.pc = "returned"
    /\ probe.exit_code = -1
    /\ IF probe.abort_trap = "inactive"
       THEN probe' = [probe EXCEPT !.exit_code = IF sched.error THEN 1
                                                 ELSE sched.exit_code]
       ELSE \E aborted \in BOOLEAN :
               probe' = [probe EXCEPT
                           !.abort_trap = IF aborted THEN "cleared"
                                          ELSE "abort_failed",
                           !.exit_code = IF ~aborted \/ sched.error THEN 1
                                         ELSE sched.exit_code]
    /\ UNCHANGED <<inputVars, loopVars, cache, workers, work_queue, result_rx, sched>>

NextTrap ==
    \/ Next
    \/ set_abort_trap
    \/ sorted_commit_set_error
    \/ run_tests_start
    \/ clear_abort_trap

FairnessTrap ==
    /\ Fairness
    /\ WF_vars(set_abort_trap)
    /\ WF_vars(run_tests_start)
    /\ WF_vars(clear_abort_trap)

SpecTrap == InitTrap /\ [][NextTrap]_vars /\ FairnessTrap

(***************************************************************************)
(* SpecQueue: the work queue on its own.  The scheduler sets any list of   *)
(* distinct jobs at any time and closes the queue (lib.rs 1342, 1346-1352, *)
(* 1553, 1415); MaxJobs workers pull, finish their job and pull again.     *)
(* probe.last_set is the list of the most recent set().                    *)
(***************************************************************************)
\* The lists of distinct jobs over the candidates.
JobLists ==
    {jobs \in UNION {[1..n -> CommitSet] : n \in 0..Len(commits)} :
        \A i, j \in DOMAIN jobs : i # j => jobs[i] # jobs[j]}

InitQueue ==
    /\ commits = [i \in 1..MaxCommits |-> i]
    /\ parent_of = Chain(MaxCommits)
    /\ tree_of = [c \in 1..MaxCommits |-> c]
    /\ options = [command |-> TestCommand, execution_strategy |-> "Worktree",
                  search_strategy |-> "Linear", jobs |-> MaxJobs,
                  interactive |-> FALSE, apply_fixes |-> FALSE]
    /\ oracle = AnyCommand
    /\ cache = << >>
    /\ workers = [w \in 1..MaxJobs |-> IdleWorker]
    /\ \E jobs \in JobLists :
          /\ work_queue = [jobs |-> jobs, closed |-> FALSE]
          /\ probe = [kind |-> "queue", last_set |-> jobs]
    /\ result_rx = <<>>
    /\ search = NewSearch
    /\ test_outputs = << >>
    /\ testing_aborted_error = <<>>
    /\ sched = NewSched(1)

\* A set() that adds the list to the pending jobs.
probe_queue_set_append ==
    /\ probe.kind = "queue"
    /\ ~work_queue.closed
    /\ \E jobs \in JobLists :
          /\ work_queue' = [work_queue EXCEPT !.jobs = @ \o jobs]
          /\ probe' = [probe EXCEPT !.last_set = jobs]
    /\ UNCHANGED <<inputVars, loopVars, cache, workers, result_rx, sched>>

\* lib.rs 1546-1553: event_loop calls work_queue.set with a new list.
probe_queue_set ==
    /\ probe.kind = "queue"
    /\ ~work_queue.closed
    /\ \E jobs \in JobLists :
          /\ work_queue' = WorkQueueSet(work_queue, jobs)
          /\ probe' = [probe EXCEPT !.last_set = jobs]
    /\ UNCHANGED <<inputVars, loopVars, cache, workers, result_rx, sched>>

\* lib.rs 1415: run_tests closes the queue.
probe_queue_close ==
    /\ probe.kind = "queue"
    /\ ~work_queue.closed
    /\ work_queue' = WorkQueueClose(work_queue)
    /\ UNCHANGED <<inputVars, loopVars, cache, workers, result_rx, sched, probe>>

\* The worker has run its job and posted the result; it pulls again.
probe_job_done(w) ==
    /\ probe.kind = "queue"
    /\ workers[w].pc = "pulled"
    /\ workers' = [workers EXCEPT ![w] = IdleWorker]
    /\ UNCHANGED <<inputVars, loopVars, cache, work_queue, result_rx, sched, probe>>

NextQueue ==
    \/ probe_queue_set
    \/ probe_queue_close
    \/ \E w \in Workers : pull(w) \/ probe_job_done(w) \/ worker_exit(w)

SpecQueue == InitQueue /\ [][NextQueue]_vars

(***************************************************************************)
(* SpecSlug: `git test run` on one commit, twice, the second invocation    *)
(* with any command of three, two of which differ and have the same slug.  *)
(* probe.first_command is the command of the first invocation.             *)
(***************************************************************************)
SlashCommand == <<"m", "/", "k">>

SlugCommands == {TestCommand, OtherCommand, SlashCommand}

InitSlug ==
    /\ \E command \in SlugCommands :
          InitRunState(SmallCommits,
                       [command |-> command, execution_strategy |-> "Worktree",
                        search_strategy |-> "None", jobs |-> 1,
                        interactive |-> FALSE, apply_fixes |-> FALSE])
    /\ tree_of = [c \in 1..SmallCommits |-> c]
    /\ oracle = [AnyCommand EXCEPT !.faults = FALSE]
    /\ cache = [slot \in Trees \X {make_command_slug(c) : c \in SlugCommands} |->
                  AbsentSlot]

\* lib.rs 470-511 and 571-655: the next invocation of `git test run`, on the
\* same commits with another --exec command.
run_other_command ==
    /\ sched.pc = "returned"
    /\ sched.run = 1
    /\ \E command \in SlugCommands :
          /\ options' = [options EXCEPT !.command = command]
          /\ work_queue' = [jobs |-> InitialQueue(commits, options'),
                            closed |-> FALSE]
    /\ sched' = NewSched(sched.run + 1)
    /\ probe' = [kind |-> "slug", first_command |-> options.command]
    /\ workers' = [w \in Workers |-> IdleWorker]
    /\ result_rx' = <<>>
    /\ search' = NewSearch
    /\ test_outputs' = << >>
    /\ testing_aborted_error' = <<>>
    /\ UNCHANGED <<commits, parent_of, tree_of, oracle, cache>>

NextSlug ==
    \/ NextRun
    \/ run_other_command

SpecSlug == InitSlug /\ [][NextSlug]_vars

(***************************************************************************)
(* Properties.                                                             *)
(***************************************************************************)
\* The workers that hold the open result, stdout and stderr files of a slot.
Writers(slot) ==
    {w \in Workers : HoldsTestFiles(w) /\ SlotOf(workers[w].job) = slot}

\* The workers whose open files are the files now in the slot.
LiveWriters(slot) == {w \in Writers(slot) : ~workers[w].files_detached}

\* The slot's result file holds one text that parses as a record.
ParseableResult(slot) ==
    /\ cache[slot].exists
    /\ cache[slot].result.exists
    /\ cache[slot].result.contents # <<>>
    /\ FromJson(cache[slot].result.contents[1]).ok

\* The statuses that come with a numeric exit code of the command.
NumericTags == {"Passed", "Failed", "Indeterminate", "Abort"}

\* C1: while a worker holds the pid.lock of a slot, at most one worker has
\* acquired the slot with open files, and every other make_test_files call on
\* the slot returns AlreadyInProgress and leaves result, stdout and stderr as
\* they were.
C1_AtMostOneWriterOnAcquire ==
    /\ [](\A slot \in Slots : /\ Cardinality(SlotHolders(slot)) <= 1
                              /\ Cardinality(Writers(slot)) <= 1)
    /\ [][\A w \in Workers :
            LET slot == SlotOf(workers[w].job)
            IN  (/\ workers[w].pc = "pulled"
                 /\ workers'[w].pc # "pulled"
                 /\ \E v \in Workers \ {w} :
                       HoldsSlotLock(v) /\ SlotOf(workers[v].job) = slot)
                => /\ workers'[w].pc = "done"
                   /\ workers'[w].test_status = AlreadyInProgress
                   /\ cache'[slot].result = cache[slot].result
                   /\ cache'[slot].stdout = cache[slot].stdout
                   /\ cache'[slot].stderr = cache[slot].stderr]_vars

\* A call returned AlreadyInProgress while another worker has the slot's
\* files open.
C1_Witness ==
    \E w \in Workers, v \in Workers :
        /\ w # v
        /\ workers[w].pc = "done"
        /\ workers[w].test_status = AlreadyInProgress
        /\ HoldsTestFiles(v)
        /\ SlotOf(workers[v].job) = SlotOf(workers[w].job)

\* C2: in every reachable state, with clean running beside the jobs, at most
\* one live holder is writing the files of a slot.
C2_AtMostOneLiveWriter ==
    \A slot \in Slots : Cardinality(LiveWriters(slot)) <= 1

\* C3 as stated: a job that found the slot's result file existing but empty
\* under a free lock acquires the slot, executes the command, and when it
\* ends with a numeric exit code the slot holds a parseable result.
C3_CrashRecoveryAlwaysExecutes ==
    [][\A w \in Workers :
         LET slot == SlotOf(workers[w].job)
         IN  /\ (/\ workers[w].pc = "locked"
                 /\ workers'[w].pc # "locked"
                 /\ cache[slot].result = EmptyFile)
                => workers'[w].pc = "acquired"
             /\ (/\ workers[w].recovering
                 /\ workers[w].pc # "done"
                 /\ workers'[w].pc = "done")
                => /\ workers'[w].spawned
                   /\ workers'[w].test_status.tag \in NumericTags
                        => ParseableResult(slot)']_vars

\* C3, amended: such a job acquires the slot; the command is executed unless
\* preparing the working directory or spawning the command fails; a job that
\* ends with a numeric exit code leaves a parseable result in the slot, and a
\* job that ends without one leaves the result file empty.
C3_CrashRecovery ==
    [][\A w \in Workers :
         LET slot == SlotOf(workers[w].job)
         IN  /\ (/\ workers[w].pc = "locked"
                 /\ workers'[w].pc # "locked"
                 /\ cache[slot].result = EmptyFile)
                => workers'[w].pc = "acquired"
             /\ (/\ workers[w].recovering
                 /\ workers[w].pc # "done"
                 /\ workers'[w].pc = "done")
                => /\ workers'[w].spawned
                        <=> workers'[w].test_status.tag
                              \notin {"CheckoutFailed", "SpawnTestFailed"}
                   /\ IF workers'[w].test_status.tag \in NumericTags
                      THEN ParseableResult(slot)'
                      ELSE cache'[slot].result = EmptyFile]_vars

\* A job that recovered a slot ran the command and left a parseable result.
C3_Witness ==
    \E w \in Workers :
        /\ workers[w].pc = "done"
        /\ workers[w].recovering
        /\ workers[w].spawned
        /\ workers[w].test_status.tag = "Passed"
        /\ ParseableResult(SlotOf(workers[w].job))

\* The variant the exit-code mapping gives an exit code.
MappedTag(exit_code) ==
    IF exit_code = 0 THEN "Passed"
    ELSE IF exit_code = 125 THEN "Indeterminate"
    ELSE IF exit_code = 127 THEN "Abort"
    ELSE "Failed"

\* C4: for every exit code, the status of the freshly run command and the
\* status derived from its cached record are Passed for 0, Indeterminate for
\* 125, Abort for 127 and Failed for every other code.
C4_ExitCodeMapping ==
    /\ probe.kind \in {"written", "read"}
         => probe.test_status.tag = MappedTag(probe.exit_code)
    /\ probe.kind = "read"
         => /\ probe.parsed.ok
            /\ probe.cached_status.tag = MappedTag(probe.parsed.value.exit_code)
            /\ probe.cached_status.tag = MappedTag(probe.exit_code)

\* The records of the special exit codes were written and read back.
C4_Witness ==
    /\ probe.kind = "read"
    /\ probe.exit_code = 125
    /\ probe.test_status.tag = "Indeterminate"
    /\ probe.cached_status.tag = "Indeterminate"

\* C5: the record parsed from the text test_commit wrote equals the written
\* record, and the status derived from it is the variant of the fresh status
\* with the same exit_code, fixed_tree_oid and interactive, with cached TRUE
\* for Passed and Failed.
C5_CacheRoundTrip ==
    probe.kind = "read"
      => /\ probe.parsed.ok
         /\ probe.parsed.value = probe.record
         /\ probe.cached_status.tag = probe.test_status.tag
         /\ probe.cached_status.exit_code = probe.test_status.exit_code
         /\ probe.cached_status.fixed_tree_oid = probe.test_status.fixed_tree_oid
         /\ probe.cached_status.interactive = probe.test_status.interactive
         /\ probe.test_status.tag \in {"Passed", "Failed"}
              => /\ probe.cached_status.cached
                 /\ ~probe.test_status.cached

\* A passing record with a fixed tree was written and read back.
C5_Witness ==
    /\ probe.kind = "read"
    /\ probe.record.fixed_tree_oid > 15
    /\ probe.cached_status = Passed(TRUE, probe.record.fixed_tree_oid,
                                    probe.interactive)

C7_CachedImpliesNotRun ==
    /\ \A w \in Workers :
          workers[w].test_status.cached
            => ~workers[w].prepared /\ ~workers[w].spawned
    /\ \A i \in 1..Len(result_rx) :
          result_rx[i].test_status.cached
            => ~result_rx[i].prepared /\ ~result_rx[i].spawned
    /\ \A c \in DOMAIN test_outputs :
          test_outputs[c].test_status.cached
            => ~test_outputs[c].prepared /\ ~test_outputs[c].spawned

\* One result came from the cache and another from a command that was run.
C7_Witness ==
    \E c \in DOMAIN test_outputs, d \in DOMAIN test_outputs :
        /\ test_outputs[c].test_status.cached
        /\ ~test_outputs[c].spawned
        /\ test_outputs[d].test_status.tag = "Passed"
        /\ test_outputs[d].spawned

\* The scheduler takes the oldest message of the result channel in this step.
Receives == result_rx # <<>> /\ result_rx' = Tail(result_rx)

\* C10: receiving a Done result with status Abort records the commit and the
\* exit code of that job in testing_aborted_error, stores the output and
\* leaves the loop; afterwards no result is consumed and nothing is stored;
\* with one worker and no search strategy the stored outputs are the
\* candidates up to and including the aborting commit, in input order.
C10_AbortHandling ==
    /\ [][(/\ Receives
           /\ Head(result_rx).kind = "Done"
           /\ Head(result_rx).test_status.tag = "Abort")
          => /\ testing_aborted_error' =
                  <<[commit_oid |-> Head(result_rx).job,
                     exit_code |-> Head(result_rx).test_status.exit_code]>>
             /\ Head(result_rx).job \in DOMAIN test_outputs'
             /\ test_outputs'[Head(result_rx).job].test_status =
                  Head(result_rx).test_status
             /\ sched'.pc = "closed"]_vars
    /\ [][testing_aborted_error # <<>>
          => /\ ~Receives
             /\ test_outputs' = test_outputs
             /\ testing_aborted_error' = testing_aborted_error]_vars
    /\ [](testing_aborted_error # <<>>
            /\ options.jobs = 1 /\ options.search_strategy = "None"
          => LET last == IndexOf(testing_aborted_error[1].commit_oid)
             IN  /\ DOMAIN test_outputs = {commits[i] : i \in 1..last}
                 /\ sched.pc = "returned"
                      => sched.test_outputs_ordered = SubSeq(commits, 1, last))

\* A run with one worker has returned after the second candidate aborted it.
C10_Witness ==
    /\ options.jobs = 1
    /\ sched.pc = "returned"
    /\ testing_aborted_error = <<[commit_oid |-> 2, exit_code |-> 127]>>
    /\ sched.test_outputs_ordered = <<1, 2>>
    /\ test_outputs[1].test_status.tag = "Passed"

\* The candidates whose verdict the notified results determine: the
\* ancestors of a Success and the descendants of a Failure.
Determined ==
    UNION {DagAncestors(x) \cap CommitSet : x \in search.success}
    \cup UNION {DagDescendants(x) \cap CommitSet : x \in search.failure}

\* Worker w takes a job from the queue in this step.
Starts(w) == workers[w].pc = "idle" /\ workers'[w].pc = "pulled"

\* The scheduler sets the queue in this step.
SetsQueue == sched.pc = "notified" /\ sched'.pc # "notified"

LastPassing == oracle.pass_up_to

AbortPosted ==
    \/ \E i \in DOMAIN result_rx :
          result_rx[i].kind = "Done" /\ result_rx[i].test_status.tag = "Abort"
    \/ testing_aborted_error # <<>>

\* Worker w starts its job in this step: it calls prepare_working_directory.
StartsJob(w) == ~workers[w].prepared /\ workers'[w].prepared

\* Worker w has started job j.
Started(w, j) == workers[w].job = j /\ workers[w].prepared

IsSuffix(t, s) ==
    /\ Len(t) <= Len(s)
    /\ t = SubSeq(s, Len(s) - Len(t) + 1, Len(s))

C12_WorkerErrorTerminates ==
    (sched.pc = "failed") ~> (sched.pc = "returned" /\ sched.error)

\* C14 as stated: every run eventually closes the work queue, every worker
\* exits and run_tests returns.
C14_ShutdownLiveness ==
    <>(/\ work_queue.closed
       /\ \A w \in Workers : workers[w].pc = "exited"
       /\ sched.pc = "returned")

\* The statuses of the per-job errors.
PerJobErrorTags ==
    {"CheckoutFailed", "SpawnTestFailed", "TerminatedBySignal",
     "AlreadyInProgress", "ReadCacheFailed", "Indeterminate", "Failed"}

\* C13: without a search strategy, receiving a result with a per-job error
\* status records it and leaves the loop only if it was the last missing
\* output; while no job has aborted and no worker has posted an Error, the
\* event loop is complete exactly when every candidate has a recorded output,
\* and the recorded commits are always candidates.
C13_NonSearchCompleteness ==
    /\ [][(/\ options.search_strategy = "None"
           /\ Receives
           /\ Head(result_rx).kind = "Done"
           /\ Head(result_rx).test_status.tag \in PerJobErrorTags)
          => /\ testing_aborted_error' = testing_aborted_error
             /\ DOMAIN test_outputs' = DOMAIN test_outputs \cup {Head(result_rx).job}
             /\ test_outputs'[Head(result_rx).job].test_status =
                  Head(result_rx).test_status
             /\ sched'.pc = IF DOMAIN test_outputs' = CommitSet
                            THEN "closed" ELSE "recv"]_vars
    /\ [](options.search_strategy = "None"
            /\ testing_aborted_error = <<>> /\ sched.pc # "failed"
          => /\ sched.pc \in {"closed", "returned"}
                  <=> DOMAIN test_outputs = CommitSet
             /\ DOMAIN test_outputs \subseteq CommitSet)

\* The event loop is complete after every candidate ended in a per-job error,
\* a different one for the first two.
C13_Witness ==
    /\ options.search_strategy = "None"
    /\ sched.pc = "closed"
    /\ testing_aborted_error = <<>>
    /\ DOMAIN test_outputs = CommitSet
    /\ \A c \in CommitSet : test_outputs[c].test_status.tag \in PerJobErrorTags
    /\ test_outputs[1].test_status.tag = "CheckoutFailed"
    /\ test_outputs[2].test_status.tag = "Failed"

\* C15: with no candidate the queue starts and stays empty, no worker takes a
\* job, no result is posted or recorded and no abort error is set; the
\* scheduler can always leave the event loop without a message; workers exit
\* only after the queue is closed; and the run ends with every worker exited
\* and the aggregate exit code 0.
C15_EmptyCandidateSet ==
    /\ [](Len(commits) = 0
          => /\ work_queue.jobs = <<>>
             /\ result_rx = <<>>
             /\ test_outputs = << >>
             /\ testing_aborted_error = <<>>
             /\ \A w \in Workers :
                   /\ workers[w].pc \in {"idle", "exited"}
                   /\ workers[w].pc = "exited" => work_queue.closed
             /\ sched.pc \in {"recv", "closed", "returned"}
             /\ sched.pc = "recv" => ENABLED event_loop_empty
             /\ sched.pc = "returned"
                  => /\ sched.exit_code = 0
                     /\ sched.test_outputs_ordered = <<>>
                     /\ ~sched.error)
    /\ (Len(commits) = 0)
         ~> (/\ sched.pc = "returned"
             /\ sched.exit_code = 0
             /\ \A w \in Workers : workers[w].pc = "exited")

\* A run with a search strategy, two workers and no candidate has returned.
C15_Witness ==
    /\ Len(commits) = 0
    /\ options.search_strategy = "Binary"
    /\ options.jobs = 2
    /\ sched.pc = "returned"
    /\ sched.exit_code = 0
    /\ \A w \in Workers : workers[w].pc = "exited"

\* C16: the ordered outputs run_tests returns list every recorded commit
\* once, no other commit, in the order of the candidate list, so they are
\* determined by the set of recorded results alone.
C16_OutputOrdering ==
    sched.pc = "returned" /\ ~sched.error
    => LET ordered == sched.test_outputs_ordered
       IN  /\ Range(ordered) = DOMAIN test_outputs
           /\ Len(ordered) = Cardinality(DOMAIN test_outputs)
           /\ \A i, j \in 1..Len(ordered) :
                 i < j => IndexOf(ordered[i]) < IndexOf(ordered[j])

\* Two workers tested the two candidates side by side and the run returned
\* both outputs.
C16_Witness ==
    /\ options.jobs = 2
    /\ sched.pc = "returned"
    /\ Len(sched.test_outputs_ordered) = 2
    /\ test_outputs[1].test_status.tag = "AlreadyInProgress"
    /\ test_outputs[2].test_status.tag = "Passed"

\* The statuses of the failed and of the skipped bucket, as the claim lists
\* them.
FailedTags == {"Failed", "Abort"}
SkippedTags ==
    {"CheckoutFailed", "SpawnTestFailed", "AlreadyInProgress", "ReadCacheFailed",
     "TerminatedBySignal", "Indeterminate"}

C18_SearchExitCodeAlwaysZero ==
    (sched.pc = "returned" /\ ~sched.error /\ options.search_strategy # "None")
    => sched.exit_code = 0

\* C18, amended: when a run with a search strategy has returned, the exit
\* code of the summary is 0 whatever statuses were recorded, unless testing
\* was aborted, and then it is 1.
C18_SearchExitCode ==
    (sched.pc = "returned" /\ ~sched.error /\ options.search_strategy # "None")
    => sched.exit_code = IF testing_aborted_error # <<>> THEN 1 ELSE 0

\* A search has returned 0 although its candidate failed.
C18_Witness ==
    /\ options.search_strategy = "Linear"
    /\ sched.pc = "returned"
    /\ testing_aborted_error = <<>>
    /\ DOMAIN test_outputs = {1}
    /\ test_outputs[1].test_status.tag = "Failed"
    /\ sched.exit_code = 0

\* C19: when a run has returned with testing_aborted_error set, the exit code
\* of the summary is 1, with and without a search strategy and whatever else
\* was recorded, and apply_fixes was not invoked; apply_fixes is invoked only
\* by a returned fix whose summary returned 0.
C19_AbortExitCode ==
    /\ (sched.pc = "returned" /\ ~sched.error /\ testing_aborted_error # <<>>)
       => /\ sched.exit_code = 1
          /\ ~sched.apply_fixes_invoked
    /\ sched.apply_fixes_invoked
       => /\ sched.pc = "returned"
          /\ options.apply_fixes
          /\ sched.exit_code = 0

\* fix has returned after its candidate aborted the run.
C19_Witness ==
    /\ options.apply_fixes
    /\ sched.pc = "returned"
    /\ testing_aborted_error = <<[commit_oid |-> 1, exit_code |-> ABORT_EXIT_CODE]>>
    /\ sched.exit_code = 1
    /\ ~sched.apply_fixes_invoked

\* C20 as stated: resolve with interactive = TRUE returns a configuration
\* error with exit code 1, or options with jobs = 1 and execution_strategy =
\* WorkingCopy.
C20_InteractiveForcesWorkingCopy ==
    (probe.kind = "resolved" /\ probe.raw.interactive)
    => \/ ~probe.resolved.ok /\ probe.resolved.exit_code = 1
       \/ /\ probe.resolved.ok
          /\ probe.resolved.jobs = 1
          /\ probe.resolved.execution_strategy = "WorkingCopy"

\* C20, amended: resolve with interactive = TRUE returns a configuration
\* error with exit code 1, before anything is started, or interactive options
\* with jobs = 1 and the execution strategy of --strategy, else of
\* branchless.test.strategy, else WorkingCopy; --jobs with a value other than
\* 1 is always an error.
C20_InteractiveResolution ==
    (probe.kind = "resolved" /\ probe.raw.interactive)
    => /\ \/ /\ ~probe.resolved.ok
             /\ probe.resolved.exit_code = 1
          \/ /\ probe.resolved.ok
             /\ probe.resolved.jobs = 1
             /\ probe.resolved.interactive
             /\ probe.resolved.execution_strategy =
                  IF probe.raw.strategy # <<>> THEN probe.raw.strategy[1]
                  ELSE IF probe.config.strategy = <<"worktree">> THEN "Worktree"
                  ELSE "WorkingCopy"
       /\ (probe.raw.jobs # <<>> /\ probe.raw.jobs[1] # 1) => ~probe.resolved.ok
       /\ workers = << >>

\* --interactive --strategy worktree resolved to one interactive job in a
\* worktree, with several jobs configured.
C20_Witness ==
    /\ probe.kind = "resolved"
    /\ probe.raw.interactive
    /\ probe.raw.strategy = <<"Worktree">>
    /\ probe.config.jobs = <<2>>
    /\ probe.resolved.ok
    /\ probe.resolved.jobs = 1
    /\ probe.resolved.execution_strategy = "Worktree"

\* C21: every successfully resolved option set with execution_strategy =
\* WorkingCopy has jobs = 1.
C21_WorkingCopySingleJob ==
    (/\ probe.kind = "resolved"
     /\ probe.resolved.ok
     /\ probe.resolved.execution_strategy = "WorkingCopy")
    => probe.resolved.jobs = 1

\* C22: when prepare_working_directory returns CheckoutFailed or
\* CreateWorktreeFailed the job's status is CheckoutFailed, when it returns
\* LockFailed the status is AlreadyInProgress, and in every failure the lock
\* of the cache slot is released and no command is spawned.
C22_PrepareFailureStatus ==
    \A w \in Workers :
        workers[w].prepare_error # "" =>
            /\ workers[w].prepare_error \in {"CheckoutFailed", "CreateWorktreeFailed"}
                   => workers[w].test_status.tag = "CheckoutFailed"
            /\ workers[w].prepare_error = "LockFailed"
                   => workers[w].test_status.tag = "AlreadyInProgress"
            /\ ~HoldsSlotLock(w)
            /\ ~workers[w].spawned

\* C23: while a PreparedWorkingDirectory is held, every further call of
\* prepare_working_directory for the same strategy and worker id returns
\* LockFailed and runs no reset or checkout; a call is refused only because
\* of a held directory of the same strategy and, for worktrees, the same
\* worker id: working copy and worktrees are independent, and so are
\* worktrees of different ids.
C23_WorkingDirectoryExclusion ==
    [][(probe.kind = "locks" /\ probe'.call # probe.call /\ probe'.call # <<>>) =>
         LET call == probe'.call[1]
         IN  /\ <<call.strategy, call.worker_id>> \in probe.held
                  => /\ call.result = "LockFailed"
                     /\ probe'.checkouts = probe.checkouts
                     /\ probe'.held = probe.held
             /\ call.result = "LockFailed"
                  => \E h \in probe.held :
                        /\ h[1] = call.strategy
                        /\ call.strategy = "Worktree" => h[2] = call.worker_id]_vars

\* A call is refused while a working copy and a worktree of another id are
\* held as well.
C23_Witness ==
    /\ probe.kind = "locks"
    /\ probe.call # <<>>
    /\ probe.call[1].result = "LockFailed"
    /\ probe.call[1].strategy = "Worktree"
    /\ <<"WorkingCopy", 1>> \in probe.held
    /\ \E h \in probe.held : h[1] = "Worktree" /\ h[2] # probe.call[1].worker_id

\* C24: a result file that is not empty and does not parse gives
\* ReadCacheFailed for its commit only (a commit of the same tree tested at
\* the same time may find the slot in progress), without aborting the run,
\* and the entry is overwritten on the next run: the next run does not read
\* the corrupt entry again but executes the command for that commit.
C24_CorruptEntryOverwritten ==
    \A c \in DOMAIN test_outputs :
        /\ (sched.run = 1 /\ tree_of[c] = tree_of[1])
              => /\ test_outputs[c].test_status.tag
                        \in {"ReadCacheFailed", "AlreadyInProgress"}
                 /\ testing_aborted_error # <<>>
                       => testing_aborted_error[1].commit_oid # c
        /\ (sched.run = 1 /\ tree_of[c] # tree_of[1])
              => test_outputs[c].test_status.tag # "ReadCacheFailed"
        /\ (sched.run = 2 /\ tree_of[c] = tree_of[1])
              => test_outputs[c].test_status.tag # "ReadCacheFailed"

\* C25: after clean over a set of commits, with no run in between and no
\* other holder of the slots, show over the same set reports no cached data
\* for every commit, whatever the command, the trees the commits share and
\* the commands the slots held results for.
C25_CleanThenShow ==
    probe.kind = "show" =>
        /\ Len(probe.reports) = probe.pos - 1
        /\ \A i \in DOMAIN probe.reports : probe.reports[i] = "No cached test data"

\* show has reported on two commits of one tree whose slots held passed
\* results under both commands.
C25_Witness ==
    /\ probe.kind = "show"
    /\ Len(probe.reports) = 2
    /\ tree_of[probe.commits[1]] = tree_of[probe.commits[2]]
    /\ \A slot \in DOMAIN probe.before :
          slot[1] = tree_of[probe.commits[1]] => probe.before[slot] = PassedSlot

\* C26: resolved options never have both fix options and a search strategy:
\* fix resolves with no search strategy and run with no fix options.
C26_FixExcludesSearch ==
    (probe.kind = "resolved" /\ probe.resolved.ok) =>
        /\ ~(probe.resolved.apply_fixes /\ probe.resolved.search_strategy # "None")
        /\ probe.resolved.apply_fixes = probe.raw.apply_fixes
        /\ probe.resolved.search_strategy # "None"
              => probe.raw.search # "None" \/ probe.raw.bisect

C26_Witness ==
    /\ probe.kind = "resolved"
    /\ probe.resolved.ok
    /\ probe.resolved.apply_fixes
    /\ probe.resolved.jobs > 1

C28_AbortTrapProtocol ==
    /\ [](\A w \in Workers :
             (options.execution_strategy = "WorkingCopy" /\ workers[w].pc # "exited")
                 => probe.abort_trap = "active")
    /\ [](options.execution_strategy = "Worktree"
             => probe.abort_trap \in {"unset", "inactive"})
    /\ []((/\ options.execution_strategy = "WorkingCopy"
           /\ probe.abort_trap # "unset"
           /\ probe.operation_in_progress \/ ~probe.head_checked_out)
             => /\ probe.abort_trap = "failed"
                /\ probe.exit_code = 1
                /\ Workers = {})
    /\ (probe.abort_trap = "active" /\ sched.pc # "start")
          ~> (probe.abort_trap \in {"cleared", "abort_failed"})

NothingPulled ==
    /\ sched.pc = "recv"
    /\ result_rx = <<>>
    /\ test_outputs = << >>
    /\ \A w \in Workers : workers[w].pc = "idle"

\* The commits the driver has been notified of.
Notified == search.success \cup search.failure \cup search.indeterminate

\* Sequence t is the beginning of sequence s.
IsPrefix(t, s) == Len(t) <= Len(s) /\ t = SubSeq(s, 1, Len(t))

\* C30: without a search strategy the initial queue holds every candidate
\* exactly once and is never set again; with a search strategy the initial
\* queue and every later set() hold at most `jobs` commits, the first ones
\* of the driver's frontier in its order, and a later set() is computed
\* after the result just received was notified to the driver.
C30_FrontierSeeding ==
    /\ []((options.search_strategy = "None" /\ NothingPulled)
             => work_queue.jobs = commits)
    /\ [][options.search_strategy = "None"
             => \/ work_queue'.jobs = work_queue.jobs
                \/ work_queue'.jobs = Tail(work_queue.jobs)]_vars
    /\ []((options.search_strategy # "None" /\ NothingPulled)
             => /\ Len(work_queue.jobs) <= options.jobs
                /\ IsPrefix(work_queue.jobs,
                            next_to_search(options.search_strategy, NewSearch,
                                           Len(commits))))
    /\ [][SetsQueue
             => /\ Len(work_queue'.jobs) <= options.jobs
                /\ IsPrefix(work_queue'.jobs,
                            next_to_search(options.search_strategy, search,
                                           Len(commits)))
                /\ DOMAIN test_outputs = Notified
                /\ Range(work_queue'.jobs) \cap Notified = {}]_vars
    /\ [](sched.pc = "notified" => Notified # {} /\ DOMAIN test_outputs = Notified)

\* A later set() has placed a commit on the queue.
C30_Witness ==
    /\ options.search_strategy # "None"
    /\ options.jobs = 1
    /\ sched.pc = "recv"
    /\ Notified # {}
    /\ work_queue.jobs # <<>>

\* C31: a persisted record and a status, fresh or read from the cache, carry
\* a fixed tree only with exit code 0 (status Passed); a fresh run records
\* the tree of the snapshot exactly when the changes are none or unstaged
\* and the snapshot has a tree that differs from the commit's, and records
\* none when changes are staged or conflicted.
C31_FixedTreeOnlyOnPassed ==
    /\ probe.kind \in {"written", "read"} =>
          /\ probe.record.fixed_tree_oid # 0 => probe.record.exit_code = 0
          /\ probe.test_status.fixed_tree_oid # 0
                => probe.test_status.tag = "Passed" /\ probe.exit_code = 0
          /\ probe.exit_code = 0
                => /\ probe.test_status.fixed_tree_oid # 0
                        <=> /\ probe.snapshot.changes_type \in {"None", "Unstaged"}
                            /\ probe.snapshot.tree_oid
                                   \notin {0, probe.commit_tree_oid}
                   /\ probe.test_status.fixed_tree_oid \in {0, probe.snapshot.tree_oid}
                   /\ probe.record.fixed_tree_oid = probe.test_status.fixed_tree_oid
          /\ probe.snapshot.changes_type \in {"Staged", "Conflicts"}
                => probe.test_status.fixed_tree_oid = 0
    /\ probe.kind = "read" =>
          /\ probe.cached_status.fixed_tree_oid # 0
                => /\ probe.cached_status.tag = "Passed"
                   /\ probe.parsed.value.exit_code = 0
          /\ \A exit_code \in RunExitCodes :
                LET foreign == [command |-> options.command, exit_code |-> exit_code,
                                fixed_tree_oid |-> probe.commit_tree_oid + 16,
                                interactive |-> probe.interactive]
                IN  CachedStatus(ToJson(foreign)).fixed_tree_oid # 0 => exit_code = 0

\* A fix was recorded and read back, and a staged change was not.
C31_Witness ==
    /\ probe.kind = "read"
    /\ probe.exit_code = 0
    /\ probe.snapshot.changes_type = "Unstaged"
    /\ probe.cached_status.fixed_tree_oid = probe.snapshot.tree_oid
    /\ probe.snapshot.tree_oid # probe.commit_tree_oid
    /\ probe.snapshot.tree_oid # 0

\* C32: `git test show` leaves every cache slot as it found it, whether the
\* slot is absent, holds an empty result or holds a record.
C32_ShowReadOnly ==
    [][probe.kind = "show" /\ probe'.kind = "show" => cache' = cache]_vars

\* C33: the fixes of apply_fixes are exactly the results that passed with a
\* fixed tree whose rebuilt commit differs from the original, one fix each,
\* from the original to the rebuilt commit; no other result yields a fix;
\* and every visible descendant of a fix target that is not a fix target is
\* replaced by itself on the plan builder, and nothing else is.
C33_FixTargets ==
    probe.kind = "fixed" =>
       LET status(c) == test_outputs[c].test_status
           targets == {c \in CommitSet :
                         /\ status(c).tag = "Passed"
                         /\ status(c).fixed_tree_oid # 0
                         /\ status(c).fixed_tree_oid # tree_of[c]}
           originals == {probe.fixes[i].original_commit_oid : i \in DOMAIN probe.fixes}
           identity == {call \in probe.replace_commit : call[1] = call[2]}
       IN  /\ originals = {CommitObject(c) : c \in targets}
           /\ Len(probe.fixes) = Cardinality(targets)
           /\ \A i \in DOMAIN probe.fixes :
                 \E c \in targets :
                    /\ probe.fixes[i].original_commit_oid = CommitObject(c)
                    /\ probe.fixes[i].fixed_commit_oid
                          = [CommitObject(c) EXCEPT !.tree = status(c).fixed_tree_oid]
                    /\ probe.fixes[i].fixed_commit_oid # CommitObject(c)
                    /\ <<CommitObject(c), probe.fixes[i].fixed_commit_oid>>
                          \in probe.replace_commit
           /\ \A c \in CommitSet :
                 (status(c).tag # "Passed" \/ status(c).fixed_tree_oid = 0)
                    => CommitObject(c) \notin originals
           /\ identity
                 = {<<CommitObject(d), CommitObject(d)>> :
                      d \in {d \in probe.visible \ targets :
                               \E c \in targets : c \in DagAncestors(d)}}

\* The first commit is fixed and its visible child, which failed, is
\* replaced by itself.
C33_Witness ==
    /\ probe.kind = "fixed"
    /\ Len(probe.fixes) = 1
    /\ probe.fixes[1].original_commit_oid = CommitObject(1)
    /\ test_outputs[2].test_status.tag = "Failed"
    /\ <<CommitObject(2), CommitObject(2)>> \in probe.replace_commit

\* The statuses of a job that acquired its slot and ended with no exit code.
NoExitTags == {"CheckoutFailed", "SpawnTestFailed", "TerminatedBySignal"}

\* A result file that was absent or empty holds text after this step only
\* when a command run for its slot ends in the step with a numeric exit code.
ResultOnlyFromExitCode ==
    \A slot \in Slots :
       (cache[slot].result.contents = <<>> /\ cache'[slot].result.contents # <<>>)
          => \E w \in Workers :
                /\ workers[w].pc = "running"
                /\ workers'[w].pc = "done"
                /\ SlotOf(workers[w].job) = slot
                /\ workers'[w].test_status.tag \in NumericTags

\* A job that acquired its slot and ends with no exit code leaves the result
\* file empty, and a read of an empty result under the lock acquires the slot.
EmptyResultAfterNoExit(w) ==
    LET slot == SlotOf(workers[w].job)
    IN  /\ (/\ HoldsTestFiles(w)
            /\ workers'[w].pc = "done"
            /\ workers'[w].test_status.tag \in NoExitTags)
           => cache'[slot].result = EmptyFile
        /\ (/\ workers[w].pc = "locked"
            /\ workers'[w].pc # "locked"
            /\ cache[slot].result = EmptyFile)
           => workers'[w].pc = "acquired"

\* C34 as stated: a job that acquired its slot and ends CheckoutFailed,
\* SpawnTestFailed or TerminatedBySignal leaves the result file empty; the
\* next acquire of the slot returns Acquired and the command is run again;
\* a result file gets text only from a command run that returned an exit
\* code.
C34_EmptyResultRunsAgain ==
    [][/\ ResultOnlyFromExitCode
       /\ \A w \in Workers :
             /\ EmptyResultAfterNoExit(w)
             /\ (/\ workers[w].recovering
                 /\ workers[w].pc # "done"
                 /\ workers'[w].pc = "done")
                => workers'[w].spawned]_vars

\* C34, amended: as stated, but the command is run again unless preparing
\* the working directory or spawning the command fails again.
C34_EmptyResultAcquiredAgain ==
    [][/\ ResultOnlyFromExitCode
       /\ \A w \in Workers :
             /\ EmptyResultAfterNoExit(w)
             /\ (/\ workers[w].recovering
                 /\ workers[w].pc # "done"
                 /\ workers'[w].pc = "done")
                => (workers'[w].spawned
                      <=> workers'[w].test_status.tag
                            \notin {"CheckoutFailed", "SpawnTestFailed"})]_vars

\* The command of the first commit was killed by a signal, and the second
\* commit, with the same tree, acquired the slot and runs the command.
C34_Witness ==
    /\ 1 \in DOMAIN test_outputs
    /\ test_outputs[1].test_status.tag = "TerminatedBySignal"
    /\ \E w \in Workers :
          /\ workers[w].job = 2
          /\ tree_of[2] = tree_of[1]
          /\ workers[w].recovering
          /\ workers[w].pc = "running"

\* C35: a worker for which run_test has returned, on whatever path, and a
\* worker waiting in pull(), holds no pid.lock and no working-directory
\* lock; so a single worker is never refused a lock it held for an earlier
\* job: it meets no AlreadyInProgress and no locked working directory.
C35_LocksReleasedOnReturn ==
    /\ \A w \in Workers :
          workers[w].pc \in {"idle", "done", "exited"}
             => /\ \A slot \in Slots : w \notin SlotHolders(slot)
                /\ \A v \in Workers :
                      w \notin WorkingDirectoryHolders(
                                  WorkingDirectoryLock(options.execution_strategy, v))
    /\ options.jobs = 1
          => \A w \in Workers :
                /\ workers[w].test_status.tag # "AlreadyInProgress"
                /\ workers[w].prepare_error # "LockFailed"
                /\ workers[w].pc = "pulled" => ENABLED
                      (make_test_files_lock(w) /\ workers'[w].pc = "locked")

\* The only worker has finished the first commit and holds the lock of the
\* same slot again for the second.
C35_Witness ==
    /\ options.jobs = 1
    /\ 1 \in DOMAIN test_outputs
    /\ tree_of[2] = tree_of[1]
    /\ workers[1].job = 2
    /\ workers[1].pc = "locked"

\* C36: while a command process runs for a job its worker holds the pid.lock
\* of the job's slot and the lock of its working directory; the slot's
\* result file is written only by a worker that holds the slot's pid.lock;
\* and the working-directory lock is taken by a worker that holds the
\* slot's pid.lock.
C36_LockCoverage ==
    [][\A w \in Workers :
         /\ workers[w].pc = "running"
               => /\ w \in SlotHolders(SlotOf(workers[w].job))
                  /\ w \in WorkingDirectoryHolders(
                              WorkingDirectoryLock(options.execution_strategy, w))
         /\ (/\ workers[w].pc = "running"
             /\ workers'[w].pc = "done"
             /\ cache'[SlotOf(workers[w].job)].result
                   # cache[SlotOf(workers[w].job)].result)
               => w \in SlotHolders(SlotOf(workers[w].job))
         /\ (~HoldsWorkingDirectory(w) /\ HoldsWorkingDirectory(w)')
               => w \in SlotHolders(SlotOf(workers[w].job))]_vars

\* C37: whenever subcommand_run has returned after set_abort_trap gave it an
\* active trap, on an error return too, clear_abort_trap has been called:
\* the trap is no longer active.
C37_TrapClearedOnReturn ==
    probe.kind = "subcommand_run" /\ probe.exit_code # -1
        => probe.abort_trap # "active"

\* A worker is executing run_test for its job.
Executing(w) ==
    workers[w].pc \in {"pulled", "locked", "acquired", "prepared", "running"}

\* C38: in search mode a worker never starts a commit that another worker
\* is executing, and an output recorded as Passed or Failed is never
\* replaced by a later output for the same commit.
C38_NoDoubleDispatch ==
    [][/\ \A w \in Workers :
             Starts(w) => \A v \in Workers \ {w} :
                             ~(Executing(v) /\ workers[v].job = workers'[w].job)
       /\ \A c \in DOMAIN test_outputs :
             test_outputs[c].test_status.tag \in {"Passed", "Failed"}
                => /\ c \in DOMAIN test_outputs'
                   /\ test_outputs'[c] = test_outputs[c]]_vars

\* C39: in fix mode apply_fixes is invoked only after run_tests has returned
\* with every worker exited, and exactly when the summary returned 0; then
\* every candidate has a recorded output and it is Passed; when a candidate
\* failed, was skipped or aborted, or has no output, apply_fixes is not
\* invoked, whatever fixed trees the others carry.
C39_FixesAllOrNothing ==
    /\ sched.apply_fixes_invoked
          => /\ options.apply_fixes
             /\ sched.pc = "returned"
             /\ ~sched.error
             /\ sched.exit_code = 0
             /\ \A w \in Workers : workers[w].pc = "exited"
             /\ \A c \in CommitSet :
                   /\ c \in DOMAIN test_outputs
                   /\ test_outputs[c].test_status.tag = "Passed"
    /\ (sched.pc = "returned" /\ options.apply_fixes)
          => (sched.apply_fixes_invoked <=> (~sched.error /\ sched.exit_code = 0))

\* Both candidates passed, the first with a fixed tree, and apply_fixes was
\* invoked.
C39_Witness ==
    /\ sched.apply_fixes_invoked
    /\ Len(commits) = 2
    /\ test_outputs[1].test_status.fixed_tree_oid # 0
    /\ test_outputs[2].test_status.tag = "Passed"

\* The first candidate passed with a fixed tree, the second failed, and
\* nothing was rewritten.
C39_WitnessNotInvoked ==
    /\ sched.pc = "returned"
    /\ ~sched.apply_fixes_invoked
    /\ 1 \in DOMAIN test_outputs
    /\ test_outputs[1].test_status.fixed_tree_oid # 0
    /\ 2 \in DOMAIN test_outputs
    /\ test_outputs[2].test_status.tag = "Failed"

\* C40: a verdict taken from the cache for a run of a command comes from a
\* record whose command field is that command; commands with one slug never
\* get each other's verdict.
C40_CachedVerdictOfCommand ==
    [][\A w \in Workers :
         (/\ workers[w].pc = "locked"
          /\ workers'[w].pc = "done"
          /\ workers'[w].test_status.tag \in NumericTags)
            => FromJson(cache[SlotOf(workers[w].job)].result.contents[1])
                  .value.command = options.command]_vars

====
